---------------------------- MODULE Spec2Model ----------------------------
(***************************************************************************)
(* Model of the UE4 property codec of icarus-mount-editor                  *)
(* (src/ue4_properties.py): BinaryReader, BinaryWriter, FPropertyTag and   *)
(* PropertySerializer.                                                     *)
(*                                                                         *)
(* Representation.                                                         *)
(*   bytes        a sequence of integers 0..255                            *)
(*   str          a sequence of Unicode code points; Python's None, where  *)
(*                a str is expected, is the one-element sequence <<-1>>    *)
(*   prop.value   a record [k, i, l]: k names the Python type, i holds a   *)
(*                flat sequence (int, bool, str, bytes, bit pattern), l a  *)
(*                sequence of sequences (list elements, dict entries)      *)
(*   float/int64  their little-endian bit pattern (struct.pack and         *)
(*                struct.unpack are inverse bijections on bit patterns)    *)
(***************************************************************************)
EXTENDS Integers, Sequences, FiniteSets, TLC

VARIABLES
    tree,     \* the caller's property list handed to serialize
    data,     \* BinaryReader.data: the buffer handed to deserialize
    origin,   \* how data was produced
    offset,   \* BinaryReader.offset
    props,    \* the list _read_properties is building
    iter,     \* passes of the _read_properties loop completed
    pc,       \* where the caller is
    err,      \* the exception deserialize raised, "" when none
    out,      \* the bytes of serialize(props) after a successful decode
    edit,     \* the last call an editor made on props, and what it returned
    mounts,   \* MountEditor.mounts
    modified, \* MountEditor._modified
    call      \* the last call made on the MountEditor, and what it returned

vars == <<tree, data, origin, offset, props, iter, pc, err, out, edit,
          mounts, modified, call>>

----------------------------------------------------------------------------
(* Strings of the source, as code points.                                  *)

None == <<-1>>
S_None == <<78, 111, 110, 101>>
S_ArrayProperty == <<65, 114, 114, 97, 121, 80, 114, 111, 112, 101, 114, 116, 121>>
S_StructProperty == <<83, 116, 114, 117, 99, 116, 80, 114, 111, 112, 101, 114, 116, 121>>
S_EnumProperty == <<69, 110, 117, 109, 80, 114, 111, 112, 101, 114, 116, 121>>
S_MapProperty == <<77, 97, 112, 80, 114, 111, 112, 101, 114, 116, 121>>
S_BoolProperty == <<66, 111, 111, 108, 80, 114, 111, 112, 101, 114, 116, 121>>
S_IntProperty == <<73, 110, 116, 80, 114, 111, 112, 101, 114, 116, 121>>
S_UInt32Property == <<85, 73, 110, 116, 51, 50, 80, 114, 111, 112, 101, 114, 116, 121>>
S_Int64Property == <<73, 110, 116, 54, 52, 80, 114, 111, 112, 101, 114, 116, 121>>
S_FloatProperty == <<70, 108, 111, 97, 116, 80, 114, 111, 112, 101, 114, 116, 121>>
S_DoubleProperty == <<68, 111, 117, 98, 108, 101, 80, 114, 111, 112, 101, 114, 116, 121>>
S_StrProperty == <<83, 116, 114, 80, 114, 111, 112, 101, 114, 116, 121>>
S_NameProperty == <<78, 97, 109, 101, 80, 114, 111, 112, 101, 114, 116, 121>>
S_ByteProperty == <<66, 121, 116, 101, 80, 114, 111, 112, 101, 114, 116, 121>>
S_terminator == <<116, 101, 114, 109, 105, 110, 97, 116, 111, 114>>
S_Vector == <<86, 101, 99, 116, 111, 114>>
S_Vector2D == <<86, 101, 99, 116, 111, 114, 50, 68>>
S_Rotator == <<82, 111, 116, 97, 116, 111, 114>>
S_Quat == <<81, 117, 97, 116>>
S_Transform == <<84, 114, 97, 110, 115, 102, 111, 114, 109>>
S_LinearColor == <<76, 105, 110, 101, 97, 114, 67, 111, 108, 111, 114>>
S_Color == <<67, 111, 108, 111, 114>>
S_Guid == <<71, 117, 105, 100>>
S_DateTime == <<68, 97, 116, 101, 84, 105, 109, 101>>
S_Timespan == <<84, 105, 109, 101, 115, 112, 97, 110>>
S_Talents == <<84, 97, 108, 101, 110, 116, 115>>

----------------------------------------------------------------------------
(* Python sequence primitives.                                             *)

Min(a, b) == IF a < b THEN a ELSE b
Max(a, b) == IF a > b THEN a ELSE b

\* s[a:b] with Python's treatment of negative and out-of-range indices.
PySlice(s, a, b) ==
    LET n  == Len(s)
        lo == IF a < 0 THEN Max(a + n, 0) ELSE Min(a, n)
        hi == IF b < 0 THEN Max(b + n, 0) ELSE Min(b, n)
    IN  IF hi <= lo THEN <<>> ELSE SubSeq(s, lo + 1, hi)

Zeros(n) == [k \in 1..n |-> 0]

RECURSIVE Flatten(_)
Flatten(ss) == IF ss = <<>> THEN <<>> ELSE Head(ss) \o Flatten(Tail(ss))

\* struct.pack('<i', v) for v in the int32 range.
pack_i(v) ==
    LET w == IF v >= 0 THEN v ELSE (v + 2147483647) + 1
        top == w \div 16777216
    IN  << w % 256, (w \div 256) % 256, (w \div 65536) % 256,
           IF v >= 0 THEN top ELSE top + 128 >>

\* struct.unpack('<i', b)[0] for four bytes b.
unpack_i(b) ==
    b[1] + 256 * b[2] + 65536 * b[3]
      + 16777216 * (IF b[4] < 128 THEN b[4] ELSE b[4] - 256)

----------------------------------------------------------------------------
(* str.encode / bytes.decode for 'ascii' and 'utf-16-le'.                  *)

IsAscii(s) == \A k \in 1..Len(s) : s[k] < 128

\* value.encode('utf-16-le'): one unit below U+10000, a surrogate pair above.
RECURSIVE encode_utf16(_)
encode_utf16(s) ==
    IF s = <<>> THEN <<>>
    ELSE LET c == Head(s)
             v == c - 65536
             hi == 55296 + (v \div 1024)
             lo == 56320 + (v % 1024)
         IN  (IF c < 65536
              THEN << c % 256, c \div 256 >>
              ELSE << hi % 256, hi \div 256, lo % 256, lo \div 256 >>)
             \o encode_utf16(Tail(s))

\* b.decode('utf-16-le'): [ok, s]; a lone surrogate or an odd byte raises.
RECURSIVE decode_utf16(_)
decode_utf16(b) ==
    IF b = <<>> THEN [ok |-> TRUE, s |-> <<>>]
    ELSE IF Len(b) < 2 THEN [ok |-> FALSE, s |-> <<>>]
    ELSE LET u == b[1] + 256 * b[2]
         IN  IF u >= 55296 /\ u < 56320
             THEN IF Len(b) < 4 THEN [ok |-> FALSE, s |-> <<>>]
                  ELSE LET w == b[3] + 256 * b[4]
                           r == decode_utf16(SubSeq(b, 5, Len(b)))
                       IN  IF w >= 56320 /\ w < 57344 /\ r.ok
                           THEN [ok |-> TRUE,
                                 s |-> <<65536 + (u - 55296) * 1024 + (w - 56320)>> \o r.s]
                           ELSE [ok |-> FALSE, s |-> <<>>]
             ELSE IF u >= 56320 /\ u < 57344 THEN [ok |-> FALSE, s |-> <<>>]
             ELSE LET r == decode_utf16(SubSeq(b, 3, Len(b)))
                  IN  IF r.ok THEN [ok |-> TRUE, s |-> <<u>> \o r.s]
                      ELSE [ok |-> FALSE, s |-> <<>>]

\* b.decode('ascii'): [ok, s]; a byte above 127 raises.
decode_ascii(b) ==
    IF \A k \in 1..Len(b) : b[k] < 128
    THEN [ok |-> TRUE, s |-> b] ELSE [ok |-> FALSE, s |-> <<>>]

----------------------------------------------------------------------------
(* BinaryReader.  Every read returns [ok, off, v, err]: ok is FALSE when   *)
(* the read raises (err names the exception), off is the reader's offset   *)
(* after the read.                                                         *)

Raise(e, off) == [ok |-> FALSE, off |-> off, v |-> <<>>, err |-> e]
Ret(v, off) == [ok |-> TRUE, off |-> off, v |-> v, err |-> ""]

\* Statement sequencing: the rest of a function runs on the result of a
\* read unless the read raised, and then the exception propagates.
Bind(r, F(_)) == IF r.ok THEN F(r) ELSE r

remaining(d, off) == Len(d) - off

read_bytes(d, off, n) ==
    IF n > Len(d) - off THEN Raise("EOFError", off)
    ELSE Ret(PySlice(d, off, off + n), off + n)

\* self.read_bytes(1)[0]
read_byte(d, off) ==
    Bind(read_bytes(d, off, 1), LAMBDA r :
         IF Len(r.v) = 0 THEN Raise("IndexError", r.off)
         ELSE Ret(r.v[1], r.off))

\* struct.unpack('<i', self.read_bytes(4))[0]
read_int32(d, off) ==
    Bind(read_bytes(d, off, 4), LAMBDA r :
         IF Len(r.v) # 4 THEN Raise("struct.error", r.off)
         ELSE Ret(unpack_i(r.v), r.off))

\* read_uint32, read_int64, read_float, read_double: n bytes kept as the
\* bit pattern.
read_bits(d, off, n) ==
    Bind(read_bytes(d, off, n), LAMBDA r :
         IF Len(r.v) # n THEN Raise("struct.error", r.off) ELSE r)

\* The str a decode produced, or the exception it raised.
decoded(t, off) ==
    IF t.ok THEN Ret(t.s, off) ELSE Raise("UnicodeDecodeError", off)

read_fstring(d, off) ==
    Bind(read_int32(d, off), LAMBDA h :
         IF h.v = 0 THEN Ret(None, h.off)
         ELSE IF h.v = 1
         THEN Bind(read_byte(d, h.off), LAMBDA z : Ret(<<>>, z.off))
         ELSE IF h.v < 0
         THEN IF h.v < -1073741823 THEN Raise("EOFError", h.off)
              ELSE Bind(read_bytes(d, h.off, (-h.v) * 2), LAMBDA r :
                        decoded(decode_utf16(PySlice(r.v, 0, -2)), r.off))
         ELSE Bind(read_bytes(d, h.off, h.v), LAMBDA r :
                   decoded(decode_ascii(PySlice(r.v, 0, -1)), r.off)))

----------------------------------------------------------------------------
(* FPropertyTag.                                                           *)

Val(k, i, l) == [k |-> k, i |-> i, l |-> l]
NoValue == Val("none", <<>>, <<>>)
StrVal(s) == IF s = None THEN NoValue ELSE Val("str", s, <<>>)

FPropertyTag(name, type_name) ==
    [name |-> name, type_name |-> type_name, value |-> NoValue,
     inner_type |-> None, struct_type |-> None, enum_type |-> None,
     elem_name |-> None, nested |-> <<>>]

\* The value a function returns for Python's None in place of a record.
NoProp == FPropertyTag(None, None)
Terminator == FPropertyTag(S_None, S_terminator)
\* Only a record without a name ends a list.
name_absent(p) == p.name = None

IsEnd(p) == p.name = None \/ p.name = S_None

\* CORE_STRUCT_TYPES: the tags with a fixed size (Transform maps to None).
CoreFloats(st) ==
    CASE st = S_Vector -> 3
      [] st = S_Vector2D -> 2
      [] st = S_Rotator -> 3
      [] st = S_Quat -> 4
      [] st = S_LinearColor -> 4
      [] OTHER -> 0

CORE_STRUCT_TYPES(st) ==
    CASE CoreFloats(st) > 0 -> 4 * CoreFloats(st)
      [] st = S_Color -> 4
      [] st = S_Guid -> 16
      [] st = S_DateTime -> 8
      [] st = S_Timespan -> 8
      [] OTHER -> 0

\* if prop.struct_type in CORE_STRUCT_TYPES, whatever size it maps to.
in_registry(st) == CORE_STRUCT_TYPES(st) > 0 \/ st = S_Transform

\* ... and fixed_size is not None
IsFixedLayout(st) == CORE_STRUCT_TYPES(st) > 0

----------------------------------------------------------------------------
(* PropertySerializer, deserialization.  fuel bounds the depth of the      *)
(* evaluation: a call that runs out of it has made more passes than any    *)
(* decode that consumes its input does, and is reported as "Timeout".      *)

\* prop with its value set, returned at the offset the read left.
WithValue(prop, value, off) == Ret([prop EXCEPT !.value = value], off)

\* k reads of 4-byte bit patterns, gathered in a list (read_float ...).
RECURSIVE read_floats(_, _, _, _)
read_floats(d, off, k, acc) ==
    IF k = 0 THEN Ret(acc, off)
    ELSE Bind(read_bits(d, off, 4), LAMBDA r :
              read_floats(d, r.off, k - 1, Append(acc, r.v)))

read_core_struct(d, off, prop, struct_type) ==
    IF CoreFloats(struct_type) > 0
    THEN Bind(read_floats(d, off, CoreFloats(struct_type), <<>>), LAMBDA r :
              WithValue(prop, Val("dict", <<>>, r.v), r.off))
    ELSE IF struct_type = S_Color
    THEN \* b, g, r, a = read_bytes(4); value = {r, g, b, a}
         Bind(read_bytes(d, off, 4), LAMBDA r :
              IF Len(r.v) # 4 THEN Raise("ValueError", r.off)
              ELSE WithValue(prop,
                             Val("dict", <<>>, << <<r.v[3]>>, <<r.v[2]>>,
                                                  <<r.v[1]>>, <<r.v[4]>> >>),
                             r.off))
    ELSE IF struct_type = S_Guid
    THEN Bind(read_bytes(d, off, 16), LAMBDA r :
              WithValue(prop, Val("hex", r.v, <<>>), r.off))
    ELSE Bind(read_bits(d, off, 8), LAMBDA r :
              WithValue(prop, Val("int64", r.v, <<>>), r.off))

\* The type tags _read_simple_value has a branch for.
SimpleTypes ==
    {S_IntProperty, S_UInt32Property, S_Int64Property, S_FloatProperty,
     S_DoubleProperty, S_StrProperty, S_NameProperty}

\* The branches of _read_simple_value for the tags it knows.
read_known_value(d, off, prop, type_name) ==
    IF type_name = S_IntProperty
    THEN Bind(read_int32(d, off), LAMBDA r :
              WithValue(prop, Val("int", <<r.v>>, <<>>), r.off))
    ELSE IF type_name = S_UInt32Property
    THEN Bind(read_bits(d, off, 4), LAMBDA r :
              WithValue(prop, Val("uint32", r.v, <<>>), r.off))
    ELSE IF type_name = S_Int64Property
    THEN Bind(read_bits(d, off, 8), LAMBDA r :
              WithValue(prop, Val("int64", r.v, <<>>), r.off))
    ELSE IF type_name = S_FloatProperty
    THEN Bind(read_bits(d, off, 4), LAMBDA r :
              WithValue(prop, Val("float", r.v, <<>>), r.off))
    ELSE IF type_name = S_DoubleProperty
    THEN Bind(read_bits(d, off, 8), LAMBDA r :
              WithValue(prop, Val("double", r.v, <<>>), r.off))
    ELSE Bind(read_fstring(d, off), LAMBDA r :
              WithValue(prop, StrVal(r.v), r.off))

\* A reader that rejects the tags it has no branch for.
read_simple_value_strict(d, off, prop, type_name, size) ==
    IF type_name \in SimpleTypes THEN read_known_value(d, off, prop, type_name)
    ELSE Raise("ValueError", off)

read_simple_value(d, off, prop, type_name, size) ==
    IF type_name \in SimpleTypes THEN read_known_value(d, off, prop, type_name)
    ELSE \* Unknown type - read raw bytes
         IF size > 0
         THEN Bind(read_bytes(d, off, size), LAMBDA r :
                   WithValue(prop, Val("bytes", r.v, <<>>), r.off))
         ELSE Ret(prop, off)

\* if remaining > 0: prop.value = reader.read_bytes(remaining)
read_map_body(d, off, prop, rem) ==
    IF rem > 0
    THEN Bind(read_bytes(d, off, rem), LAMBDA r :
              WithValue(prop, Val("bytes", r.v, <<>>), r.off))
    ELSE Ret(prop, off)

read_map_property(d, off, prop, size) ==
    Bind(read_fstring(d, off), LAMBDA kt :
    Bind(read_fstring(d, kt.off), LAMBDA vt :
    Bind(read_byte(d, vt.off), LAMBDA z :
         \* len(None) raises
         IF kt.v = None \/ vt.v = None THEN Raise("TypeError", z.off)
         ELSE read_map_body(d, z.off, prop,
                            size - (Len(kt.v) + 5) - (Len(vt.v) + 5) - 1))))

\* The type-specific header of a prototype tag, then the padding byte.
read_tag_header(d, off, prop) ==
    Bind(IF prop.type_name = S_StructProperty
         THEN Bind(read_fstring(d, off), LAMBDA hs :
              Bind(read_bytes(d, hs.off, 16), LAMBDA g :
                   Ret([prop EXCEPT !.struct_type = hs.v], g.off)))
         ELSE IF prop.type_name = S_ArrayProperty
         THEN Bind(read_fstring(d, off), LAMBDA hs :
                   Ret([prop EXCEPT !.inner_type = hs.v], hs.off))
         ELSE IF prop.type_name = S_EnumProperty
         THEN Bind(read_fstring(d, off), LAMBDA hs :
                   Ret([prop EXCEPT !.enum_type = hs.v], hs.off))
         ELSE Ret(prop, off),
         LAMBDA hdr : Bind(read_byte(d, hdr.off), LAMBDA pad :
                           Ret(hdr.v, pad.off)))

read_property_tag(d, off) ==
    IF remaining(d, off) < 4 THEN Ret(NoProp, off)
    ELSE Bind(read_fstring(d, off), LAMBDA nm :
         IF nm.v = None \/ nm.v = S_None THEN Ret(NoProp, nm.off)
         ELSE Bind(read_fstring(d, nm.off), LAMBDA ty :
              Bind(read_int32(d, ty.off), LAMBDA sz :
              Bind(read_int32(d, sz.off), LAMBDA ai :
                   read_tag_header(d, ai.off, FPropertyTag(nm.v, ty.v))))))

\* One element of a scalar array, by inner type; the fallback reads
\* item_size = (size - 4) // count bytes.
read_array_item(d, off, inner, size, count) ==
    IF inner = S_IntProperty
    THEN Bind(read_int32(d, off), LAMBDA x : Ret(<<x.v>>, x.off))
    ELSE IF inner = S_FloatProperty THEN read_bits(d, off, 4)
    ELSE IF inner = S_StrProperty THEN read_fstring(d, off)
    ELSE read_bytes(d, off, (size - 4) \div count)

\* The scalar elements of an array: count passes of the for loop.
RECURSIVE read_array_items(_, _, _, _, _, _, _)
read_array_items(d, off, inner, size, count, k, acc) ==
    IF k <= 0 THEN Ret(acc, off)
    ELSE Bind(read_array_item(d, off, inner, size, count), LAMBDA r :
              read_array_items(d, r.off, inner, size, count, k - 1,
                               Append(acc, r.v)))

RECURSIVE read_property(_, _, _)
RECURSIVE read_properties_from(_, _, _, _)
RECURSIVE read_struct_loop(_, _, _, _, _)
RECURSIVE read_elements(_, _, _, _, _, _)

\* _read_properties: the while loop, entered with the list read so far.
read_properties_from(d, off, acc, fuel) ==
    IF remaining(d, off) < 4 THEN Ret(acc, off)
    ELSE IF fuel = 0 THEN Raise("Timeout", off)
    ELSE Bind(read_property(d, off, fuel - 1), LAMBDA r :
              IF IsEnd(r.v) THEN Ret(acc, r.off)
              ELSE read_properties_from(d, r.off, Append(acc, r.v), fuel - 1))

read_properties(d, off, fuel) == read_properties_from(d, off, <<>>, fuel)

\* elem = FPropertyTag(name=prototype.name, type_name='StructProperty',
\*                     struct_type=prototype.struct_type)
Element(prototype, nested) ==
    [FPropertyTag(prototype.name, S_StructProperty)
       EXCEPT !.struct_type = prototype.struct_type, !.nested = nested]

\* The for loop over the elements of a struct array.
read_elements(d, off, prototype, k, acc, fuel) ==
    IF k <= 0 THEN Ret(acc, off)
    ELSE IF fuel = 0 THEN Raise("Timeout", off)
    ELSE Bind(read_properties(d, off, fuel - 1), LAMBDA r :
              read_elements(d, r.off, prototype, k - 1,
                            Append(acc, Element(prototype, r.v)), fuel - 1))

read_array_value(d, off, prop, size, fuel) ==
    Bind(read_int32(d, off), LAMBDA c :
         IF prop.inner_type = S_StructProperty
         THEN Bind(read_property_tag(d, c.off), LAMBDA pt :
                   IF pt.v = NoProp THEN Ret(prop, pt.off)
                   ELSE Bind(read_elements(d, pt.off, pt.v, c.v, <<>>, fuel),
                             LAMBDA es :
                               Ret([prop EXCEPT !.elem_name = pt.v.name,
                                                !.struct_type = pt.v.struct_type,
                                                !.nested = es.v], es.off)))
         ELSE IF prop.inner_type = S_ByteProperty
         THEN Bind(read_bytes(d, c.off, c.v), LAMBDA r :
                   WithValue(prop,
                             Val("list", <<>>, [k \in 1..Len(r.v) |-> <<r.v[k]>>]),
                             r.off))
         ELSE Bind(read_array_items(d, c.off, prop.inner_type, size, c.v, c.v,
                                    <<>>),
                   LAMBDA r : WithValue(prop, Val("list", <<>>, r.v), r.off)))

\* The while loop of _read_struct_value.
read_struct_loop(d, off, end_pos, acc, fuel) ==
    IF ~(off < end_pos /\ remaining(d, off) >= 4) THEN Ret(acc, off)
    ELSE IF fuel = 0 THEN Raise("Timeout", off)
    ELSE Bind(read_property(d, off, fuel - 1), LAMBDA r :
              IF IsEnd(r.v) THEN Ret(acc, r.off)
              ELSE read_struct_loop(d, r.off, end_pos, Append(acc, r.v),
                                    fuel - 1))

\* The cursor left where the loop stopped.
left_at_sentinel(d, start_pos, size, prop, lp) ==
    Ret([prop EXCEPT !.nested = lp.v], lp.off)

\* bytes_read = reader.position - start_pos; the rest of size is skipped.
skip_to_size(d, start_pos, size, prop, lp) ==
    IF lp.off - start_pos < size
    THEN Bind(read_bytes(d, lp.off, size - (lp.off - start_pos)), LAMBDA sk :
              Ret([prop EXCEPT !.nested = lp.v], sk.off))
    ELSE Ret([prop EXCEPT !.nested = lp.v], lp.off)

read_struct_value(d, off, prop, size, fuel) ==
    IF IsFixedLayout(prop.struct_type)
    THEN read_core_struct(d, off, prop, prop.struct_type)
    ELSE Bind(read_struct_loop(d, off, off + size, <<>>, fuel), LAMBDA lp :
              skip_to_size(d, off, size, prop, lp))

\* The branch of _read_property on the type: header, then value.
read_typed(d, off, prop, size, fuel) ==
    IF prop.type_name = S_ArrayProperty
    THEN Bind(read_fstring(d, off), LAMBDA hs :
         Bind(read_byte(d, hs.off), LAMBDA pad :
              read_array_value(d, pad.off, [prop EXCEPT !.inner_type = hs.v],
                               size, fuel)))
    ELSE IF prop.type_name = S_StructProperty
    THEN Bind(read_fstring(d, off), LAMBDA hs :
         Bind(read_bytes(d, hs.off, 17), LAMBDA guid :
              read_struct_value(d, guid.off, [prop EXCEPT !.struct_type = hs.v],
                                size, fuel)))
    ELSE IF prop.type_name = S_EnumProperty
    THEN Bind(read_fstring(d, off), LAMBDA hs :
         Bind(read_byte(d, hs.off), LAMBDA pad :
         Bind(read_fstring(d, pad.off), LAMBDA ev :
              Ret([prop EXCEPT !.enum_type = hs.v, !.value = StrVal(ev.v)],
                  ev.off))))
    ELSE IF prop.type_name = S_MapProperty
    THEN read_map_property(d, off, prop, size)
    ELSE IF prop.type_name = S_BoolProperty
    THEN Bind(read_byte(d, off), LAMBDA b1 :
         Bind(read_byte(d, b1.off), LAMBDA b2 :
              WithValue(prop, Val("bool", <<IF b1.v # 0 THEN 1 ELSE 0>>, <<>>),
                        b2.off)))
    ELSE Bind(read_byte(d, off), LAMBDA sp :
              read_simple_value(d, sp.off, prop, prop.type_name, size))

read_property(d, off, fuel) ==
    IF remaining(d, off) < 4 THEN Ret(NoProp, off)
    ELSE Bind(read_fstring(d, off), LAMBDA nm :
         IF nm.v = None \/ nm.v = S_None THEN Ret(Terminator, nm.off)
         ELSE Bind(read_fstring(d, nm.off), LAMBDA ty :
              Bind(read_int32(d, ty.off), LAMBDA sz :
              Bind(read_int32(d, sz.off), LAMBDA ai :
                   read_typed(d, ai.off, FPropertyTag(nm.v, ty.v), sz.v,
                              fuel)))))

----------------------------------------------------------------------------
(* BinaryWriter over a BytesIO.  The stream is written front to back, so   *)
(* each write_* below is the bytes that call appends at the position; the  *)
(* one seek of the source, back to a reserved size field, is patch_int32.  *)

\* stream.seek(at); stream.write(b): overwrite in place (BytesIO.write).
Overwrite(d, at, b) ==
    SubSeq(d, 1, at) \o b \o SubSeq(d, at + Len(b) + 1, Len(d))

write_int32(v) == pack_i(v)

write_fstring(value) ==
    IF value = None THEN write_int32(0)
    ELSE IF IsAscii(value)
    THEN LET encoded == value \o <<0>>
         IN  write_int32(Len(encoded)) \o encoded
    ELSE LET encoded == encode_utf16(value) \o <<0, 0>>
             char_count == Len(value) + 1
         IN  write_int32(-char_count) \o encoded

----------------------------------------------------------------------------
(* PropertySerializer, serialization.                                      *)

\* a or b, for str operands: None and '' are falsy.
Or(a, b) == IF a = None \/ a = <<>> THEN b ELSE a

write_core_struct(prop, struct_type) ==
    LET v == prop.value
        n == CoreFloats(struct_type)
    IN  IF n > 0
        THEN IF v.k = "dict" THEN Flatten(v.l) ELSE Zeros(4 * n)
        ELSE IF struct_type = S_Color
        THEN IF v.k = "dict" THEN v.l[3] \o v.l[2] \o v.l[1] \o v.l[4]
             ELSE Zeros(4)
        ELSE IF struct_type = S_Guid
        THEN IF v.k = "hex" /\ v.i # <<>> THEN v.i ELSE Zeros(16)
        ELSE IF v.k = "int64" THEN v.i ELSE Zeros(8)

write_simple_property_value(prop) ==
    IF prop.type_name = S_IntProperty THEN write_int32(prop.value.i[1])
    ELSE IF prop.type_name \in {S_UInt32Property, S_Int64Property,
                                S_FloatProperty, S_DoubleProperty}
    THEN prop.value.i
    ELSE IF prop.type_name \in {S_StrProperty, S_NameProperty}
    THEN write_fstring(IF prop.value.k = "none" THEN None ELSE prop.value.i)
    ELSE IF prop.value.k = "bytes" THEN prop.value.i
    ELSE <<>>

\* A writer that counts the element count in the prototype's size.
prototype_size_with_count(elem_data, count) == Len(elem_data) + 4

\* A writer that declares the size of one element in the prototype.
per_element_size(elem_data, count) ==
    IF count = 0 THEN 0 ELSE Len(elem_data) \div count

\* The size the prototype of a struct array declares: len(elem_data).
prototype_size(elem_data, count) == Len(elem_data)

write_prototype_tag(prop, elem_size) ==
    write_fstring(prop.name) \o write_fstring(prop.type_name)
      \o write_int32(elem_size) \o write_int32(0)
      \o write_fstring(prop.struct_type) \o Zeros(16) \o <<0>>

\* The scalar elements of an array, written by inner type.
write_array_items(inner, values) ==
    Flatten([k \in 1..Len(values) |->
               IF inner = S_IntProperty THEN write_int32(values[k][1])
               ELSE IF inner = S_FloatProperty THEN values[k]
               ELSE IF inner = S_StrProperty THEN write_fstring(values[k])
               ELSE <<>>])

RECURSIVE write_property(_)
RECURSIVE write_properties(_, _)

\* temp = BinaryWriter(); for elem in prop.nested:
\*     self._write_properties(temp, elem.nested)
write_elements(elems) ==
    Flatten([k \in 1..Len(elems) |-> write_properties(elems[k].nested, FALSE)])

write_array_value(prop) ==
    LET count == IF prop.inner_type = S_StructProperty THEN Len(prop.nested)
                 ELSE IF prop.value.k = "list" THEN Len(prop.value.l)
                 ELSE IF prop.value.k = "bytes" THEN Len(prop.value.i)
                 ELSE 0
    IN  write_int32(count) \o
        (IF prop.inner_type = S_StructProperty
         THEN LET first == prop.nested[1]
                  elem_name == IF count > 0 THEN Or(prop.elem_name, first.name)
                               ELSE prop.elem_name
                  struct_type == IF count > 0
                                 THEN Or(prop.struct_type, first.struct_type)
                                 ELSE prop.struct_type
                  prototype == [FPropertyTag(Or(elem_name, prop.name),
                                             S_StructProperty)
                                  EXCEPT !.struct_type = Or(struct_type, <<>>)]
                  elem_data == write_elements(prop.nested)
              IN  write_prototype_tag(prototype, prototype_size(elem_data, count))
                    \o elem_data
         ELSE IF prop.inner_type = S_ByteProperty
         THEN IF prop.value.k = "list" THEN Flatten(prop.value.l)
              ELSE IF prop.value.k = "bytes" THEN prop.value.i
              ELSE <<>>
         ELSE write_array_items(prop.inner_type,
                                IF prop.value.k = "list" THEN prop.value.l
                                ELSE <<>>))

write_struct_value(prop) ==
    IF IsFixedLayout(prop.struct_type)
    THEN write_core_struct(prop, prop.struct_type)
    ELSE write_properties(prop.nested, FALSE)

\* A writer that takes the position itself for the size.
position_as_size(value_start, end_pos) == end_pos

\* value_size = writer.position - value_start
value_size_of(value_start, end_pos) == end_pos - value_start

\* A writer that numbers the property 1.
array_index_one(prop) == 1

\* The array index field of a written tag (always 0 for our use case).
written_array_index(prop) == 0

\* A writer that leaves the size placeholder as it is.
placeholder_kept(buf, size_pos, value_size) == buf

\* stream.seek(size_pos); write_int32(value_size); stream.seek(end_pos)
patch_int32(buf, size_pos, value_size) ==
    Overwrite(buf, size_pos, write_int32(value_size))

\* The bytes _write_property appends; positions are counted from start_pos.
write_property(prop) ==
    LET tag == write_fstring(prop.name) \o write_fstring(prop.type_name)
        size_pos == Len(tag)
        placeholder == tag \o write_int32(0)
                           \o write_int32(written_array_index(prop))
        \* the per-type header, outside of size
        header ==
            IF prop.type_name = S_ArrayProperty
            THEN write_fstring(prop.inner_type) \o <<0>>
            ELSE IF prop.type_name = S_StructProperty
            THEN write_fstring(prop.struct_type) \o Zeros(17)
            ELSE IF prop.type_name = S_EnumProperty
            THEN write_fstring(prop.enum_type) \o <<0>>
            ELSE IF prop.type_name = S_BoolProperty
            THEN << IF prop.value.k = "bool" /\ prop.value.i = <<1>>
                    THEN 1 ELSE 0, 0 >>
            ELSE <<0>>
        value ==
            IF prop.type_name = S_ArrayProperty THEN write_array_value(prop)
            ELSE IF prop.type_name = S_StructProperty
            THEN write_struct_value(prop)
            ELSE IF prop.type_name = S_EnumProperty
            THEN write_fstring(IF prop.value.k = "none" THEN None
                               ELSE prop.value.i)
            ELSE IF prop.type_name = S_BoolProperty THEN <<>>
            ELSE write_simple_property_value(prop)
        value_start == Len(placeholder) + Len(header)
        written == placeholder \o header \o value
        value_size == IF prop.type_name = S_BoolProperty THEN 0
                      ELSE value_size_of(value_start, Len(written))
    IN  patch_int32(written, size_pos, value_size)

\* A writer that puts the four zero bytes after every list it ends.
write_properties_padded(properties, add_trailing) ==
    Flatten([k \in 1..Len(properties) |-> write_property(properties[k])])
      \o write_fstring(S_None) \o Zeros(4)

write_properties(properties, add_trailing) ==
    Flatten([k \in 1..Len(properties) |-> write_property(properties[k])])
      \o write_fstring(S_None)
      \o (IF add_trailing THEN Zeros(4) ELSE <<>>)

\* PropertySerializer.serialize (add_trailing defaults to True).
serialize(properties) == write_properties(properties, TRUE)

\* A writer that keeps the names it infers for the prototype on the array.
prototype_names_stored(prop) ==
    IF /\ prop.type_name = S_ArrayProperty
       /\ prop.inner_type = S_StructProperty
       /\ Len(prop.nested) > 0
    THEN [prop EXCEPT
            !.elem_name = Or(prop.elem_name, prop.nested[1].name),
            !.struct_type = Or(prop.struct_type, prop.nested[1].struct_type)]
    ELSE prop

\* The record as _write_property and _write_array_value leave it: the
\* writer reads attributes; elem_name, struct_type, prototype, count and
\* value_size are locals, and no attribute of prop is assigned.
after_write_property(prop) == prop

\* The list as serialize leaves it, every record at every depth written.
RECURSIVE after_write_properties(_)
after_write_properties(properties) ==
    [k \in 1..Len(properties) |->
       [after_write_property(properties[k]) EXCEPT
          !.nested = after_write_properties(properties[k].nested)]]

\* PropertySerializer.deserialize, as one call: [ok, v, off, err].
deserialize(d, fuel) == read_properties(d, 0, fuel)

----------------------------------------------------------------------------
(* Utility functions.  A record of a tree is named by its location: the    *)
(* 1-based positions to follow, the first in the list, each next one in    *)
(* the nested list of the record reached (Python hands out the object).    *)

\* The first position of c in s, 0 when c is not in s (str.split, in).
IndexOf(s, c) ==
    IF \E k \in 1..Len(s) : s[k] = c
    THEN CHOOSE k \in 1..Len(s) : s[k] = c /\ \A j \in 1..(k - 1) : s[j] # c
    ELSE 0

\* name.rstrip(']')
RECURSIVE rstrip(_, _)
rstrip(s, c) ==
    IF s # <<>> /\ s[Len(s)] = c THEN rstrip(SubSeq(s, 1, Len(s) - 1), c) ELSE s

\* The number a string of ASCII digits denotes.
RECURSIVE digits(_)
digits(s) ==
    IF s = <<>> THEN 0 ELSE 10 * digits(SubSeq(s, 1, Len(s) - 1)) + (s[Len(s)] - 48)

\* int(idx_str) for a string of ASCII characters without blanks or
\* underscores: an optional sign and at least one digit, or ValueError.
int(s) ==
    IF s # <<>> /\ s[1] \in {43, 45}
    THEN [ok |-> Len(s) > 1 /\ \A k \in 2..Len(s) : s[k] \in 48..57,
          v |-> IF s[1] = 45 THEN -digits(Tail(s)) ELSE digits(Tail(s))]
    ELSE [ok |-> s # <<>> /\ \A k \in 1..Len(s) : s[k] \in 48..57,
          v |-> digits(s)]

\* A local name for a value: the rest of a function runs with it.
With(v, F(_)) == F(v)

\* name, idx_str = name.rstrip(']').split('['); index = int(idx_str), for
\* the part of the path before the first dot.  ok is FALSE when the
\* unpacking or int() raises.
IndexSuffix(part) ==
    With(rstrip(part, 93), LAMBDA stripped :
    With(IndexOf(stripped, 91), LAMBDA lb :
    With(IF lb = 0 THEN [ok |-> TRUE, v |-> 0]
         ELSE int(SubSeq(stripped, lb + 1, Len(stripped))), LAMBDA idx :
         [ok |-> lb = 0 \/ (idx.ok /\ Cardinality({k \in 1..Len(stripped) :
                                                     stripped[k] = 91}) = 1),
          name |-> IF lb = 0 THEN part ELSE SubSeq(stripped, 1, lb - 1),
          indexed |-> lb # 0,
          index |-> IF idx.ok THEN idx.v ELSE 0])))

\* parts = path.split('.', 1): [name, index] of parts[0], and parts[1].
Segment(path) ==
    With(IndexOf(path, 46), LAMBDA dot :
         [head |-> IndexSuffix(IF dot = 0 THEN path
                               ELSE SubSeq(path, 1, dot - 1)),
          more |-> dot # 0,
          rest |-> IF dot = 0 THEN <<>> ELSE SubSeq(path, dot + 1, Len(path))])

\* What find_property hands back: a record's location, None, or an
\* exception.
Found(loc) == [ok |-> TRUE, found |-> TRUE, loc |-> loc, err |-> ""]
NotFound == [ok |-> TRUE, found |-> FALSE, loc |-> <<>>, err |-> ""]
FindRaises(e) == [ok |-> FALSE, found |-> FALSE, loc |-> <<>>, err |-> e]

\* A lookup that takes the first child whatever the index.
nested_first(index, n) == 1

\* prop.nested[index] for a list of n records: a negative index counts
\* from the end.
nested_at(index, n) == IF index < 0 THEN index + n + 1 ELSE index + 1

\* for prop in properties: if prop.name == name: the first position that
\* matches, 0 when the loop ends without one.
first_named(properties, name) ==
    IF \E j \in 1..Len(properties) : properties[j].name = name
    THEN CHOOSE j \in 1..Len(properties) :
           /\ properties[j].name = name
           /\ \A i \in 1..(j - 1) : properties[i].name # name
    ELSE 0

RECURSIVE find_property(_, _)

\* The body of the loop for the record prop at position k.
find_from(prop, k, seg) ==
    IF seg.head.indexed
       /\ ~(prop.type_name = S_ArrayProperty
            /\ seg.head.index < Len(prop.nested))
    THEN NotFound
    ELSE IF seg.head.indexed /\ seg.head.index < -Len(prop.nested)
    THEN FindRaises("IndexError")
    ELSE With(IF seg.head.indexed
              THEN <<k, nested_at(seg.head.index, Len(prop.nested))>>
              ELSE <<k>>, LAMBDA loc :
         With(IF seg.head.indexed THEN prop.nested[loc[2]] ELSE prop,
              LAMBDA target :
              IF ~seg.more THEN Found(loc)
              ELSE IF target.nested = <<>> THEN NotFound
              ELSE With(find_property(target.nested, seg.rest), LAMBDA below :
                        IF below.found THEN Found(loc \o below.loc)
                        ELSE below)))

find_property(properties, path) ==
    With(Segment(path), LAMBDA seg :
         IF ~seg.head.ok THEN FindRaises("ValueError")
         ELSE With(first_named(properties, seg.head.name), LAMBDA k :
                   IF k = 0 THEN NotFound
                   ELSE find_from(properties[k], k, seg)))

\* The record at a location, and the list with that record's value set.
RECURSIVE At(_, _)
At(properties, loc) ==
    IF Len(loc) = 1 THEN properties[loc[1]]
    ELSE At(properties[loc[1]].nested, Tail(loc))

\* A setter that writes the value on the first record of the list.
set_on_first(properties, loc, value) == [properties EXCEPT ![1].value = value]

RECURSIVE SetValueAt(_, _, _)
SetValueAt(properties, loc, value) ==
    IF Len(loc) = 1 THEN [properties EXCEPT ![loc[1]].value = value]
    ELSE [properties EXCEPT ![loc[1]].nested = SetValueAt(@, Tail(loc), value)]

\* set_property_value: [ok, ret, properties] after the call.
set_property_value(properties, path, value) ==
    With(find_property(properties, path), LAMBDA prop :
         [ok |-> prop.ok, err |-> prop.err, ret |-> prop.found,
          properties |-> IF prop.found
                         THEN SetValueAt(properties, prop.loc, value)
                         ELSE properties])

\* MountEditor.reset_mount_talents on the properties of the mount: the
\* number of talents cleared and the list after the call.
reset_mount_talents(properties) ==
    With(find_property(properties, S_Talents), LAMBDA talents_prop :
    With(IF talents_prop.found
         THEN Len(At(properties, talents_prop.loc).nested) ELSE 0,
         LAMBDA talent_count :
         [count |-> talent_count,
          properties |-> IF talent_count = 0 THEN properties
                         ELSE [properties EXCEPT
                                 ![talents_prop.loc[1]].nested = <<>>]]))

\* clone_properties: deserialize(serialize(properties)).
clone_properties(properties, fuel) == deserialize(serialize(properties), fuel)

----------------------------------------------------------------------------
(* mount_types: the MOUNT_TYPES table, get_mount_type and the              *)
(* transformation of a property value from one type to another.  A type is *)
(* the dict key together with the fields of the MountType stored under it. *)

S_AISetupRowName == <<65, 73, 83, 101, 116, 117, 112, 82, 111, 119, 78, 97, 109, 101>>
S_ActorClassName == <<65, 99, 116, 111, 114, 67, 108, 97, 115, 115, 78, 97, 109, 101>>
S_ObjectFName == <<79, 98, 106, 101, 99, 116, 70, 78, 97, 109, 101>>
S_ActorPathName == <<65, 99, 116, 111, 114, 80, 97, 116, 104, 78, 97, 109, 101>>

MountType(key, name, ai_setup, blueprint) ==
    [key |-> key, name |-> name, ai_setup |-> ai_setup, blueprint |-> blueprint]

\* The value get_mount_type returns for Python's None.
NoType == MountType(None, None, None, None)

MOUNT_TYPES == <<
    \* Terrenus: Terrenus, Mount_Horse, BP_Mount_Horse_C
    MountType(<<84, 101, 114, 114, 101, 110, 117, 115>>,
              <<84, 101, 114, 114, 101, 110, 117, 115>>,
              <<77, 111, 117, 110, 116, 95, 72, 111, 114, 115, 101>>,
              <<66, 80, 95, 77, 111, 117, 110, 116, 95, 72, 111, 114, 115, 101, 95, 67>>),
    \* Horse: Horse, Mount_Horse_Standard_A3, BP_Mount_Horse_Standard_C
    MountType(<<72, 111, 114, 115, 101>>,
              <<72, 111, 114, 115, 101>>,
              <<77, 111, 117, 110, 116, 95, 72, 111, 114, 115, 101, 95, 83, 116, 97, 110, 100, 97, 114, 100, 95, 65, 51>>,
              <<66, 80, 95, 77, 111, 117, 110, 116, 95, 72, 111, 114, 115, 101, 95, 83, 116, 97, 110, 100, 97, 114, 100, 95, 67>>),
    \* Moa: Moa, Mount_Moa, BP_Mount_Moa_C
    MountType(<<77, 111, 97>>,
              <<77, 111, 97>>,
              <<77, 111, 117, 110, 116, 95, 77, 111, 97>>,
              <<66, 80, 95, 77, 111, 117, 110, 116, 95, 77, 111, 97, 95, 67>>),
    \* ArcticMoa: Arctic Moa, Mount_Arctic_Moa, BP_Mount_Arctic_Moa_C
    MountType(<<65, 114, 99, 116, 105, 99, 77, 111, 97>>,
              <<65, 114, 99, 116, 105, 99, 32, 77, 111, 97>>,
              <<77, 111, 117, 110, 116, 95, 65, 114, 99, 116, 105, 99, 95, 77, 111, 97>>,
              <<66, 80, 95, 77, 111, 117, 110, 116, 95, 65, 114, 99, 116, 105, 99, 95, 77, 111, 97, 95, 67>>),
    \* Buffalo: Buffalo, Mount_Buffalo, BP_Mount_Buffalo_C
    MountType(<<66, 117, 102, 102, 97, 108, 111>>,
              <<66, 117, 102, 102, 97, 108, 111>>,
              <<77, 111, 117, 110, 116, 95, 66, 117, 102, 102, 97, 108, 111>>,
              <<66, 80, 95, 77, 111, 117, 110, 116, 95, 66, 117, 102, 102, 97, 108, 111, 95, 67>>),
    \* Tusker: Tusker, Mount_Tusker, BP_Mount_Tusker_C
    MountType(<<84, 117, 115, 107, 101, 114>>,
              <<84, 117, 115, 107, 101, 114>>,
              <<77, 111, 117, 110, 116, 95, 84, 117, 115, 107, 101, 114>>,
              <<66, 80, 95, 77, 111, 117, 110, 116, 95, 84, 117, 115, 107, 101, 114, 95, 67>>),
    \* Zebra: Zebra, Mount_Zebra, BP_Mount_Zebra_C
    MountType(<<90, 101, 98, 114, 97>>,
              <<90, 101, 98, 114, 97>>,
              <<77, 111, 117, 110, 116, 95, 90, 101, 98, 114, 97>>,
              <<66, 80, 95, 77, 111, 117, 110, 116, 95, 90, 101, 98, 114, 97, 95, 67>>),
    \* WoolyZebra: Wooly Zebra, Mount_Zebra_Shaggy, BP_Mount_Wooly_Zebra_C
    MountType(<<87, 111, 111, 108, 121, 90, 101, 98, 114, 97>>,
              <<87, 111, 111, 108, 121, 32, 90, 101, 98, 114, 97>>,
              <<77, 111, 117, 110, 116, 95, 90, 101, 98, 114, 97, 95, 83, 104, 97, 103, 103, 121>>,
              <<66, 80, 95, 77, 111, 117, 110, 116, 95, 87, 111, 111, 108, 121, 95, 90, 101, 98, 114, 97, 95, 67>>),
    \* SwampBird: SwampBird, Mount_SwampBird, BP_Mount_SwampBird_C
    MountType(<<83, 119, 97, 109, 112, 66, 105, 114, 100>>,
              <<83, 119, 97, 109, 112, 66, 105, 114, 100>>,
              <<77, 111, 117, 110, 116, 95, 83, 119, 97, 109, 112, 66, 105, 114, 100>>,
              <<66, 80, 95, 77, 111, 117, 110, 116, 95, 83, 119, 97, 109, 112, 66, 105, 114, 100, 95, 67>>),
    \* WoollyMammoth: Woolly Mammoth, Mount_WoollyMammoth, BP_Mount_WoollyMammoth_C
    MountType(<<87, 111, 111, 108, 108, 121, 77, 97, 109, 109, 111, 116, 104>>,
              <<87, 111, 111, 108, 108, 121, 32, 77, 97, 109, 109, 111, 116, 104>>,
              <<77, 111, 117, 110, 116, 95, 87, 111, 111, 108, 108, 121, 77, 97, 109, 109, 111, 116, 104>>,
              <<66, 80, 95, 77, 111, 117, 110, 116, 95, 87, 111, 111, 108, 108, 121, 77, 97, 109, 109, 111, 116, 104, 95, 67>>),
    \* BluebackDaisy: Blueback Daisy, Mount_Blueback_Daisy, BP_Mount_Blueback_Daisy_C
    MountType(<<66, 108, 117, 101, 98, 97, 99, 107, 68, 97, 105, 115, 121>>,
              <<66, 108, 117, 101, 98, 97, 99, 107, 32, 68, 97, 105, 115, 121>>,
              <<77, 111, 117, 110, 116, 95, 66, 108, 117, 101, 98, 97, 99, 107, 95, 68, 97, 105, 115, 121>>,
              <<66, 80, 95, 77, 111, 117, 110, 116, 95, 66, 108, 117, 101, 98, 97, 99, 107, 95, 68, 97, 105, 115, 121, 95, 67>>),
    \* MiniHippo: Mini Hippo, Mount_MiniHippo, BP_Mount_MiniHippo_Quest_C
    MountType(<<77, 105, 110, 105, 72, 105, 112, 112, 111>>,
              <<77, 105, 110, 105, 32, 72, 105, 112, 112, 111>>,
              <<77, 111, 117, 110, 116, 95, 77, 105, 110, 105, 72, 105, 112, 112, 111>>,
              <<66, 80, 95, 77, 111, 117, 110, 116, 95, 77, 105, 110, 105, 72, 105, 112, 112, 111, 95, 81, 117, 101, 115, 116, 95, 67>>) >>

TRANSFORM_PROPERTIES ==
    <<S_AISetupRowName, S_ActorClassName, S_ObjectFName, S_ActorPathName>>

\* str.lower() of a string of ASCII characters.
lower(s) == [k \in 1..Len(s) |-> IF s[k] \in 65..90 THEN s[k] + 32 ELSE s[k]]

\* get_mount_type: the entry under the key name, else the first entry whose
\* key equals name when both are lower-cased, else None.
get_mount_type(name) ==
    IF \E k \in 1..Len(MOUNT_TYPES) : MOUNT_TYPES[k].key = name
    THEN MOUNT_TYPES[CHOOSE k \in 1..Len(MOUNT_TYPES) : MOUNT_TYPES[k].key = name]
    ELSE IF \E k \in 1..Len(MOUNT_TYPES) : lower(MOUNT_TYPES[k].key) = lower(name)
    THEN MOUNT_TYPES[CHOOSE k \in 1..Len(MOUNT_TYPES) :
                       /\ lower(MOUNT_TYPES[k].key) = lower(name)
                       /\ \A j \in 1..(k - 1) :
                            lower(MOUNT_TYPES[j].key) # lower(name)]
    ELSE NoType

StartsWith(s, prefix) ==
    Len(prefix) <= Len(s) /\ SubSeq(s, 1, Len(prefix)) = prefix

\* s.replace(old, new) for a non-empty old: every occurrence, left to right.
RECURSIVE replace(_, _, _)
replace(s, old, new) ==
    IF s = <<>> THEN <<>>
    ELSE IF StartsWith(s, old)
    THEN new \o replace(SubSeq(s, Len(old) + 1, Len(s)), old, new)
    ELSE <<s[1]>> \o replace(Tail(s), old, new)

\* The last position of c in s, 0 when c is not in s (str.rsplit).
LastIndexOf(s, c) ==
    IF \E k \in 1..Len(s) : s[k] = c
    THEN CHOOSE k \in 1..Len(s) : s[k] = c /\ \A j \in (k + 1)..Len(s) : s[j] # c
    ELSE 0

\* str.isdigit() of a string of ASCII characters.
isdigit(s) == s # <<>> /\ \A k \in 1..Len(s) : s[k] \in 48..57

\* get_transform_value, for a current_value that is a str.
get_transform_value(prop_name, source_type, target_type, current_value) ==
    IF prop_name = S_AISetupRowName THEN target_type.ai_setup
    ELSE IF prop_name = S_ActorClassName THEN target_type.blueprint
    ELSE IF prop_name = S_ObjectFName
    THEN With(LastIndexOf(current_value, 95), LAMBDA k :
           IF k > 0 /\ isdigit(SubSeq(current_value, k + 1, Len(current_value)))
           THEN target_type.blueprint \o <<95>>
                  \o SubSeq(current_value, k + 1, Len(current_value))
           ELSE replace(current_value, source_type.blueprint,
                        target_type.blueprint))
    ELSE IF prop_name = S_ActorPathName
    THEN replace(current_value, source_type.blueprint, target_type.blueprint)
    ELSE current_value

----------------------------------------------------------------------------
(* mount_editor: the XP curve, MountData and the MountEditor methods that  *)
(* change the list of mounts.  self is the editor's mounts and _modified;  *)
(* a method returns self as it leaves it, what it returned or raised.      *)

S_Experience == <<69, 120, 112, 101, 114, 105, 101, 110, 99, 101>>
S_MountName == <<77, 111, 117, 110, 116, 78, 97, 109, 101>>
S_IcarusActorGUID == <<73, 99, 97, 114, 117, 115, 65, 99, 116, 111, 114, 71, 85, 73, 68>>
S_noguid == <<110, 111, 103, 117, 105, 100>>

\* _XP_KEYPOINTS: (level, xp, tangent).
XP_KEYPOINTS ==
    << <<10, 13500, 2250>>, <<30, 140000, 17000>>, <<50, 1150000, 88000>> >>

\* int(_hermite_interpolate(t, xp0, xp1, m0, m1)) for t = k / n, m0 = tan0 * n
\* and m1 = tan1 * n, in exact arithmetic: the four basis polynomials over
\* the common denominator n^3, the xp values and tangents taken in units
\* of 500 to stay within 32 bits.  (The code works in binary floating
\* point, and for levels 24, 37, 43, 44 and 47 it ends one below the
\* exact value.)
hermite_interpolate(k, n, p0, p1, m0, m1) ==
    ( (2 * k * k * k - 3 * n * k * k + n * n * n) * (p0 \div 500)
      + (k * k * k - 2 * n * k * k + n * n * k) * (m0 \div 500)
      + (3 * n * k * k - 2 * k * k * k) * (p1 \div 500)
      + (k * k * k - n * k * k) * (m1 \div 500) ) \div ((n * n * n) \div 500)

\* estimate_xp_for_level
estimate_xp_for_level(level) ==
    IF level <= 1 THEN 0
    ELSE IF level < XP_KEYPOINTS[1][1]
    THEN Max(0, XP_KEYPOINTS[1][2]
                  - XP_KEYPOINTS[1][3] * (XP_KEYPOINTS[1][1] - level))
    ELSE IF level >= XP_KEYPOINTS[3][1]
    THEN XP_KEYPOINTS[3][2] + XP_KEYPOINTS[3][3] * (level - XP_KEYPOINTS[3][1])
    ELSE With(IF level < XP_KEYPOINTS[2][1] THEN 1 ELSE 2, LAMBDA i :
         With(XP_KEYPOINTS[i + 1][1] - XP_KEYPOINTS[i][1],
              LAMBDA segment_length :
              hermite_interpolate(level - XP_KEYPOINTS[i][1], segment_length,
                                  XP_KEYPOINTS[i][2], XP_KEYPOINTS[i + 1][2],
                                  XP_KEYPOINTS[i][3] * segment_length,
                                  XP_KEYPOINTS[i + 1][3] * segment_length)))

\* str(n) for n >= 0.
RECURSIVE str(_)
str(n) == IF n < 10 THEN <<48 + n>> ELSE str(n \div 10) \o <<48 + (n % 10)>>

\* bool(prop.value): None, 0, '' and an empty list or bytes are false.
Truthy(value) ==
    CASE value.k = "none" -> FALSE
      [] value.k = "int" -> value.i # <<0>>
      [] value.k = "bool" -> value.i # <<0>>
      [] value.k \in {"str", "bytes", "hex"} -> value.i # <<>>
      [] value.k = "list" -> value.l # <<>>
      [] OTHER -> TRUE

MountData(index, json_data, properties) ==
    [index |-> index, json_data |-> json_data, properties |-> properties]

Self(mounts_, modified_) == [mounts |-> mounts_, modified |-> modified_]

\* A method returns ret, or raises e; self is as the method leaves it.
Returns(self, ret) == [ok |-> TRUE, err |-> "", ret |-> ret, self |-> self]
Raises(self, e) == [ok |-> FALSE, err |-> e, ret |-> -1, self |-> self]

\* get_mount raises IndexError for these.
out_of_range(self, index) == index < 0 \/ index >= Len(self.mounts)

\* prop = find_property(properties, name); if prop (and the guard holds for
\* its value): prop.value = F(prop.value).
SetNamed(properties, name, guard(_), F(_)) ==
    With(find_property(properties, name), LAMBDA prop :
      IF prop.found /\ guard(At(properties, prop.loc).value)
      THEN SetValueAt(properties, prop.loc, F(At(properties, prop.loc).value))
      ELSE properties)

\* set_mount_name
set_mount_name(self, index, new_name) ==
    IF out_of_range(self, index) THEN Raises(self, "IndexError")
    ELSE Returns(
           Self([self.mounts EXCEPT
                   ![index + 1].properties =
                       SetNamed(@, S_MountName, LAMBDA v : TRUE,
                                LAMBDA v : StrVal(new_name)),
                   ![index + 1].json_data.MountName = new_name],
                TRUE),
           -1)

\* The loop over TRANSFORM_PROPERTIES, from its k-th name on.
RECURSIVE transform_properties(_, _, _, _)
transform_properties(properties, k, source_type, target_type) ==
    IF k > Len(TRANSFORM_PROPERTIES) THEN properties
    ELSE transform_properties(
           SetNamed(properties, TRANSFORM_PROPERTIES[k], Truthy,
                    LAMBDA old_value :
                      StrVal(get_transform_value(TRANSFORM_PROPERTIES[k],
                                                 source_type, target_type,
                                                 old_value.i))),
           k + 1, source_type, target_type)

\* change_mount_type; new_name is None when the caller gives none.
change_mount_type(self, index, target_type_name, new_name) ==
    IF out_of_range(self, index) THEN Raises(self, "IndexError")
    ELSE
    With(get_mount_type(self.mounts[index + 1].json_data.MountType),
         LAMBDA source_type :
    With(get_mount_type(target_type_name), LAMBDA target_type :
      IF source_type = NoType THEN Raises(self, "ValueError")
      ELSE IF target_type = NoType THEN Raises(self, "ValueError")
      ELSE IF source_type.name = target_type.name THEN Returns(self, -1)
      ELSE
      With(Self([self.mounts EXCEPT
                   ![index + 1].properties =
                       transform_properties(@, 1, source_type, target_type),
                   ![index + 1].json_data.MountType = target_type.name],
                self.modified),
           LAMBDA changed :
             IF new_name # None /\ new_name # <<>>
             THEN set_mount_name(changed, index, new_name)
             ELSE Returns(Self(changed.mounts, TRUE), -1))))

\* A check of the lower limit only.
below_one(level) == level < 1

\* if level < 1 or level > 50
level_out_of_range(level) == level < 1 \/ level > 50

\* set_mount_level
set_mount_level(self, index, level) ==
    IF level_out_of_range(level) THEN Raises(self, "ValueError")
    ELSE IF out_of_range(self, index) THEN Raises(self, "IndexError")
    ELSE Returns(
           Self([self.mounts EXCEPT
                   ![index + 1].json_data.MountLevel = level,
                   ![index + 1].properties =
                       SetNamed(@, S_Experience, LAMBDA v : TRUE,
                                LAMBDA v : Val("int",
                                               <<estimate_xp_for_level(level)>>,
                                               <<>>))],
                TRUE),
           -1)

\* re.search(r'_(\d+)$', value): the position of the underscore the match
\* starts at, 0 when there is no match.  Digits hold no underscore, so a
\* match starts at the last underscore.
id_suffix(value) ==
    With(LastIndexOf(value, 95), LAMBDA k :
      IF k > 0 /\ isdigit(SubSeq(value, k + 1, Len(value))) THEN k ELSE 0)

\* existing_ids, collected from the ObjectFName of every mount.
existing_ids(self) ==
    UNION {With(find_property(self.mounts[m].properties, S_ObjectFName),
                LAMBDA obj_fname :
             IF obj_fname.found
             THEN With(At(self.mounts[m].properties, obj_fname.loc).value,
                       LAMBDA value :
                    IF Truthy(value) /\ id_suffix(value.i) > 0
                    THEN {digits(SubSeq(value.i, id_suffix(value.i) + 1,
                                        Len(value.i)))}
                    ELSE {})
             ELSE {}) : m \in 1..Len(self.mounts)}

\* re.sub(r'_\d+$', f'_{new_id}', value)
sub_id(value, new_id) ==
    IF id_suffix(value) > 0
    THEN SubSeq(value, 1, id_suffix(value) - 1) \o <<95>> \o str(new_id)
    ELSE value

\* The clone's properties after the four updates of clone_mount.
renamed(new_properties, new_name, new_id) ==
    SetNamed(
      SetNamed(
        SetNamed(
          SetNamed(new_properties, S_MountName, LAMBDA v : TRUE,
                   LAMBDA v : StrVal(new_name)),
          S_IcarusActorGUID, LAMBDA v : TRUE,
          LAMBDA v : Val("int", <<new_id>>, <<>>)),
        S_ObjectFName, Truthy, LAMBDA v : StrVal(sub_id(v.i, new_id))),
      S_ActorPathName, Truthy, LAMBDA v : StrVal(sub_id(v.i, new_id)))

\* clone_mount, with the new_id random.randint gave that is not among
\* existing_ids; new_type is None when the caller gives none.
clone_mount(self, source_index, new_name, new_type, new_id, fuel) ==
    IF out_of_range(self, source_index) THEN Raises(self, "IndexError")
    ELSE
    With(self.mounts[source_index + 1], LAMBDA source :
    With(clone_properties(source.properties, fuel), LAMBDA cloned :
      IF ~cloned.ok THEN Raises(self, cloned.err)
      ELSE
      With(MountData(Len(self.mounts),
                     [source.json_data EXCEPT
                        !.MountName = new_name,
                        !.DatabaseGUID = S_noguid,
                        !.MountIconName = str(new_id)],
                     renamed(cloned.v, new_name, new_id)),
           LAMBDA new_mount :
      With(Self(Append(self.mounts, new_mount), TRUE), LAMBDA added :
        IF new_type # None /\ new_type # <<>>
        THEN With(change_mount_type(added, new_mount.index, new_type, None),
                  LAMBDA changed :
                    IF changed.ok THEN Returns(changed.self, new_mount.index)
                    ELSE changed)
        ELSE Returns(added, new_mount.index)))))

\* A delete that leaves the indices as they were.
stale_indices(mounts_) == mounts_

\* for i, m in enumerate(self.mounts): m.index = i
reindexed(mounts_) ==
    [i \in 1..Len(mounts_) |-> [mounts_[i] EXCEPT !.index = i - 1]]

\* delete_mount
delete_mount(self, index) ==
    IF out_of_range(self, index) THEN Raises(self, "IndexError")
    ELSE Returns(Self(reindexed(SubSeq(self.mounts, 1, index)
                                  \o SubSeq(self.mounts, index + 2,
                                            Len(self.mounts))),
                      TRUE),
                 -1)

----------------------------------------------------------------------------
(* The reference encoder (the game that wrote the save), for the few       *)
(* shapes whose bytes the writer above cannot produce: a 16-bit string     *)
(* whose prefix counts units, a property with an array index, a map.       *)

\* The number of 16-bit units of a string.
utf16_units(s) == Len(encode_utf16(s)) \div 2

ref_fstring(s) ==
    IF s = None THEN pack_i(0)
    ELSE IF IsAscii(s) THEN pack_i(Len(s) + 1) \o s \o <<0>>
    ELSE pack_i(-(utf16_units(s) + 1)) \o encode_utf16(s) \o <<0, 0>>

\* One property: tag, the per-type header outside the size, the value.
ref_property(name, type_name, array_index, header, value) ==
    ref_fstring(name) \o ref_fstring(type_name) \o pack_i(Len(value))
      \o pack_i(array_index) \o header \o value

ref_list(body) == body \o ref_fstring(S_None) \o Zeros(4)

ref_str_property(name, s) ==
    ref_property(name, S_StrProperty, 0, <<0>>, ref_fstring(s))

ref_map_property(name, key_type, value_type, body) ==
    ref_property(name, S_MapProperty, 0,
                 ref_fstring(key_type) \o ref_fstring(value_type) \o <<0>>, body)

----------------------------------------------------------------------------
(* Inputs.                                                                 *)

MaxStrLen == 1      \* code points in a generated string value
MaxElems == 2       \* elements of a generated array
MaxChildren == 1    \* children of a generated struct or array element
MaxSteps == 12      \* fuel of one read_property call
PatchSpan == 48     \* size fields are overwritten with -PatchSpan .. 8

N_A == <<65>>
N_B == <<66>>
N_E == <<69>>
N_S == <<83>>
N_X == <<88>>

\* 'A', e-acute (two bytes in UTF-16), an emoji outside the BMP.
CodePoints == {65, 233, 128512}
Strs == UNION {[1..n -> CodePoints] : n \in 0..MaxStrLen}
IntValues == {0, -1, 1150000}

Mk(name, type_name, value) ==
    [FPropertyTag(name, type_name) EXCEPT !.value = value]

Scalars(name) ==
    {Mk(name, S_IntProperty, Val("int", <<v>>, <<>>)) : v \in IntValues}
    \cup {Mk(name, S_StrProperty, StrVal(s)) : s \in Strs \cup {None}}
    \cup {Mk(name, S_NameProperty, StrVal(N_B))}
    \cup {Mk(name, S_BoolProperty, Val("bool", <<b>>, <<>>)) : b \in {0, 1}}
    \cup {Mk(name, S_FloatProperty, Val("float", <<0, 64, 156, 69>>, <<>>)),
          Mk(name, S_UInt32Property, Val("uint32", <<255, 255, 255, 255>>, <<>>)),
          Mk(name, S_Int64Property, Val("int64", <<1, 0, 0, 0, 0, 0, 0, 128>>, <<>>)),
          Mk(name, S_DoubleProperty, Val("double", <<0, 0, 0, 0, 0, 136, 179, 64>>, <<>>))}
    \cup {[Mk(name, S_EnumProperty, StrVal(s)) EXCEPT !.enum_type = N_E]
            : s \in {N_A, None}}

\* A property whose type tag the reader does not know.
UnknownTyped(name) ==
    {Mk(name, N_X, Val("bytes", <<1, 2>>, <<>>)), Mk(name, N_X, NoValue)}

CoreStructs(name) ==
    {[Mk(name, S_StructProperty, v[2]) EXCEPT !.struct_type = v[1]] : v \in
       { <<S_Vector, Val("dict", <<>>, << <<0, 0, 128, 63>>, <<0, 0, 0, 64>>,
                                           <<0, 0, 64, 64>> >>)>>,
         <<S_Vector2D, Val("dict", <<>>, << <<0, 0, 128, 63>>, <<0, 0, 0, 64>> >>)>>,
         <<S_Rotator, Val("dict", <<>>, << <<0, 0, 128, 63>>, <<0, 0, 0, 64>>,
                                            <<0, 0, 64, 64>> >>)>>,
         <<S_Quat, Val("dict", <<>>, << <<0, 0, 128, 63>>, <<0, 0, 0, 64>>,
                                         <<0, 0, 64, 64>>, <<0, 0, 128, 64>> >>)>>,
         <<S_LinearColor, Val("dict", <<>>, << <<0, 0, 128, 63>>, <<0, 0, 0, 64>>,
                                                <<0, 0, 64, 64>>, <<0, 0, 128, 64>> >>)>>,
         <<S_Color, Val("dict", <<>>, << <<1>>, <<2>>, <<3>>, <<4>> >>)>>,
         <<S_Guid, Val("hex", [k \in 1..16 |-> k], <<>>)>>,
         <<S_DateTime, Val("int64", <<1, 2, 3, 4, 5, 6, 7, 8>>, <<>>)>>,
         <<S_Timespan, Val("int64", <<8, 7, 6, 5, 4, 3, 2, 1>>, <<>>)>> }}

Lists(S, n) == UNION {[1..k -> S] : k \in 0..n}

\* Arrays of at most n scalars; the last has an inner type the reader
\* does not know, and elements of no bytes.
ScalarArrays(name, n) ==
    {[Mk(name, S_ArrayProperty, Val("list", <<>>, t[2])) EXCEPT !.inner_type = t[1]]
       : t \in { <<S_ByteProperty, l>> : l \in Lists({<<7>>, <<200>>}, n) }
           \cup { <<S_IntProperty, l>> : l \in Lists({<<-2>>}, n) }
           \cup { <<S_FloatProperty, l>> : l \in Lists({<<0, 64, 156, 69>>}, n) }
           \cup { <<S_StrProperty, l>> : l \in Lists({N_A, <<233>>}, n) }
           \cup { <<N_X, l>> : l \in Lists({<<>>}, n) }}

N_C == <<67>>
N_D == <<68>>

\* The children a generated struct or array element is built from.
Kids == {Mk(N_C, S_IntProperty, Val("int", <<7>>, <<>>)),
         Mk(N_D, S_StrProperty, StrVal(<<233>>))}

Struct(name, tag, nested) ==
    [FPropertyTag(name, S_StructProperty)
       EXCEPT !.struct_type = tag, !.nested = nested]

\* A struct array as the reader builds it: the prototype's name and struct
\* tag on the parent and on every element.
StructArray(name, tag, bodies) ==
    [FPropertyTag(name, S_ArrayProperty)
       EXCEPT !.inner_type = S_StructProperty, !.elem_name = name,
              !.struct_type = tag,
              !.nested = [k \in 1..Len(bodies) |-> Struct(name, tag, bodies[k])]]

Structs(name) ==
    {Struct(name, tag, nested) : tag \in {N_S, S_Transform},
                                 nested \in Lists(Kids, MaxChildren)}

StructArrays(name, n) ==
    {StructArray(name, N_S, bodies) :
        bodies \in Lists(Lists(Kids, MaxChildren), n)}

\* Two levels of nesting: a struct holding a struct array of structs, and a
\* struct array whose element holds a struct and a fixed-layout struct.
Nested(name) ==
    { Struct(name, N_S,
             <<StructArray(N_C, N_S, << <<Struct(N_D, N_S, <<>>)>> >>)>>),
      StructArray(name, N_S,
             << <<Struct(N_C, N_S, <<Mk(N_D, S_BoolProperty,
                                        Val("bool", <<1>>, <<>>))>>),
                  [Mk(N_D, S_StructProperty,
                      Val("dict", <<>>, << <<1>>, <<2>>, <<3>>, <<4>> >>))
                     EXCEPT !.struct_type = S_Color]>> >>) }

\* A struct array a caller builds: the elements set, the prototype's name
\* and struct tag left for the writer to take from the first element.
CallerBuilt(name) ==
    {[FPropertyTag(name, S_ArrayProperty)
        EXCEPT !.inner_type = S_StructProperty,
               !.nested = <<Struct(N_C, N_S, nested)>>]
       : nested \in Lists(Kids, MaxChildren)}

\* The properties a tree starts with, its arrays of at most n elements.
Props(name, n) ==
    Scalars(name) \cup UnknownTyped(name) \cup CoreStructs(name)
      \cup ScalarArrays(name, n) \cup Structs(name) \cup StructArrays(name, n)
      \cup Nested(name)

Sibling == Mk(N_B, S_IntProperty, Val("int", <<8>>, <<>>))

TreesOf(P) == {<<p>> : p \in P} \cup {<<p, Sibling>> : p \in P}

\* A mount's talents: an array of structs named Talents.
TalentTrees == TreesOf(StructArrays(S_Talents, MaxElems))

Trees == {<<>>} \cup TreesOf(Props(N_A, MaxElems)) \cup TalentTrees

\* The trees whose bytes are also cut short or given another declared size.
ByteTrees == TreesOf(Props(N_A, 1))

\* What the game can have written that serialize cannot: 16-bit strings
\* and maps.
ReferenceStrings ==
    {ref_list(ref_str_property(N_A, s)) : s \in Strs \ {<<>>}}

ReferenceMaps ==
    {ref_list(ref_map_property(N_A, S_IntProperty, S_StrProperty, body))
       : body \in {<<>>, pack_i(0), pack_i(0) \o pack_i(1) \o pack_i(5)
                                      \o ref_fstring(N_B)}}

\* A record without the attribute its type requires: an array with no
\* inner type, a struct with no struct tag (the dataclass defaults), at any
\* depth of the list.
RECURSIVE MissingAttribute(_)
MissingAttribute(p) ==
    \/ p.type_name = S_ArrayProperty /\ p.inner_type = None
    \/ p.type_name = S_StructProperty /\ p.struct_type = None
    \/ \E k \in 1..Len(p.nested) : MissingAttribute(p.nested[k])

Malformed(properties) ==
    \E k \in 1..Len(properties) : MissingAttribute(properties[k])

\* A struct array without the element-name hint the reader sets.
Hintless(properties) ==
    \E k \in 1..Len(properties) :
       /\ properties[k].type_name = S_ArrayProperty
       /\ properties[k].inner_type = S_StructProperty
       /\ properties[k].elem_name = None

HintlessTrees == TreesOf(CallerBuilt(N_A))

\* Records built with FPropertyTag(name=, type_name=) and nothing else set
\* but a value or children.
BadRecords(name) ==
    { FPropertyTag(name, S_ArrayProperty),
      Mk(name, S_ArrayProperty, Val("list", <<>>, << <<-2>> >>)),
      FPropertyTag(name, S_StructProperty),
      [FPropertyTag(name, S_StructProperty)
         EXCEPT !.nested = <<Mk(N_C, S_IntProperty, Val("int", <<7>>, <<>>))>>],
      Struct(name, N_S, <<FPropertyTag(N_C, S_ArrayProperty)>>) }

BadTrees == TreesOf(BadRecords(N_A))

\* Paths of the grammar: A, B, Z, A.C, A.D, A.A, A[0], A[1], A[2],
\* A[0].C, A[1].D, A.C[0].D, A[0].C.D.
Paths ==
    { <<65>>, <<66>>, <<90>>, <<65, 46, 67>>, <<65, 46, 68>>, <<65, 46, 65>>,
      <<65, 91, 48, 93>>, <<65, 91, 49, 93>>, <<65, 91, 50, 93>>,
      <<65, 91, 48, 93, 46, 67>>, <<65, 91, 49, 93, 46, 68>>,
      <<65, 46, 67, 91, 48, 93, 46, 68>>, <<65, 91, 48, 93, 46, 67, 46, 68>> }

\* Paths whose index is negative or beyond the children of every generated
\* array: A[-1], A[-3], A[5].
IndexPaths ==
    { <<65, 91, 45, 49, 93>>, <<65, 91, 45, 51, 93>>, <<65, 91, 53, 93>> }

\* The values a caller sets on a record: of the record's own type for the
\* scalar types, a value the writer does not look at for the others.
NewValues(prop) ==
    IF prop.type_name = S_IntProperty THEN {Val("int", <<5>>, <<>>)}
    ELSE IF prop.type_name \in {S_StrProperty, S_NameProperty, S_EnumProperty}
    THEN {StrVal(<<66, 66>>), StrVal(<<233>>)}
    ELSE IF prop.type_name = S_BoolProperty
    THEN {Val("bool", <<0>>, <<>>), Val("bool", <<1>>, <<>>)}
    ELSE IF prop.type_name \in {S_FloatProperty, S_UInt32Property}
    THEN {Val(prop.value.k, <<0, 0, 128, 63>>, <<>>)}
    ELSE IF prop.type_name \in {S_Int64Property, S_DoubleProperty}
    THEN {Val(prop.value.k, <<0, 0, 0, 0, 0, 0, 240, 63>>, <<>>)}
    ELSE IF prop.type_name = S_StructProperty /\ IsFixedLayout(prop.struct_type)
    THEN {prop.value}
    ELSE {Val("int", <<5>>, <<>>)}

IndexValues == {-1, 7}
SizeValues == (-PatchSpan .. 8) \cup {1000}
\* Declared sizes that end on a child boundary or beyond the sentinel of a
\* generated struct: 35 one child, 9 and 44 a whole list, and 9 or 35 more.
PaddedSizes == {18, 35, 44, 53}
TerminatorValues == {1, 66}

----------------------------------------------------------------------------
(* The editor.  mount_cli loads the file, makes the calls of one command   *)
(* on the MountEditor and saves; an exception that leaves a method ends    *)
(* the command.                                                            *)

MaxMounts == 3      \* mounts a list is cloned up to
MaxCalls == 3       \* calls of one command on the editor

\* 'M', 'N': names of mounts.
N_M == <<77>>
N_N == <<78>>

\* One entry of SavedMounts: the keys the editor reads or writes.
Json(name, type, level) ==
    [MountName |-> name, MountType |-> type, MountLevel |-> level,
     DatabaseGUID |-> <<103>>, MountIconName |-> <<49>>]

\* The properties of a mount of type t with the actor id n, as deserialize
\* returns them for its RecorderBlob: MountName, Experience,
\* AISetupRowName, ActorClassName, ObjectFName, ActorPathName ('L.' and the
\* object name), IcarusActorGUID.
MountProperties(name, t, n) ==
    << Mk(S_MountName, S_StrProperty, StrVal(name)),
       Mk(S_Experience, S_IntProperty, Val("int", <<0>>, <<>>)),
       Mk(S_AISetupRowName, S_NameProperty, StrVal(t.ai_setup)),
       Mk(S_ActorClassName, S_NameProperty, StrVal(t.blueprint)),
       Mk(S_ObjectFName, S_NameProperty,
          StrVal(t.blueprint \o <<95>> \o str(n))),
       Mk(S_ActorPathName, S_StrProperty,
          StrVal(<<76, 46>> \o t.blueprint \o <<95>> \o str(n))),
       Mk(S_IcarusActorGUID, S_IntProperty, Val("int", <<n>>, <<>>)) >>

\* The ids random.randint(2147000000, 2147483647) is taken to give: the
\* two ends of its range.
NewIds == {2147000000, 2147483647}

\* A Terrenus whose id is one of NewIds.
SavedTerrenus ==
    MountData(0, Json(N_M, MOUNT_TYPES[1].key, 3),
              MountProperties(N_M, MOUNT_TYPES[1], 2147000000))

\* The mounts of a save: the Terrenus; a Tusker without properties; a
\* mount whose MountType is no mount type; a mount whose name is outside
\* the BMP.
SavedMounts ==
    { SavedTerrenus,
      MountData(0, Json(N_N, MOUNT_TYPES[6].key, 50), <<>>),
      MountData(0, Json(N_M, <<68>>, 1),
                <<Mk(S_Experience, S_IntProperty, Val("int", <<5>>, <<>>))>>),
      MountData(0, Json(<<128512>>, MOUNT_TYPES[1].key, 3),
                <<Mk(S_MountName, S_StrProperty, StrVal(<<128512>>))>>) }

\* MountEditor.load: every mount gets its position as index.  A save of
\* one mount, or of the Terrenus and one more.
LoadedMounts ==
    {[i \in 1..Len(l) |-> MountData(i - 1, l[i].json_data, l[i].properties)]
       : l \in {<<m>> : m \in SavedMounts}
                \cup {<<SavedTerrenus, m>> : m \in SavedMounts}}

Indexes == -1..MaxMounts
Levels == {0, 1, 30, 50, 51}

\* Type names a caller gives: keys of MOUNT_TYPES (Terrenus, ArcticMoa,
\* Tusker), 'tusker', and 'D', which is no type.
TypeNames ==
    {MOUNT_TYPES[k].key : k \in {1, 4, 6}}
      \cup {lower(MOUNT_TYPES[6].key), <<68>>}

\* A call on the editor: its name and arguments, self before it, what it
\* returned or raised, and the number of calls made so far.
Call(op, index, level, type, name, before, r, n) ==
    [op |-> op, index |-> index, level |-> level, type |-> type,
     name |-> name, before |-> before, ok |-> r.ok, err |-> r.err,
     ret |-> r.ret, n |-> n]

NoCall ==
    Call("none", 0, 0, None, None, Self(<<>>, FALSE),
         Returns(Self(<<>>, FALSE), -1), 0)

NoEditor == mounts = <<>> /\ modified = FALSE /\ call = NoCall


----------------------------------------------------------------------------
(* The caller.  A tree is serialized, or a buffer arrives from outside;    *)
(* the buffer is decoded by one pass of the _read_properties loop per      *)
(* step; a decoded list is serialized again.                               *)

Origin(kind, at, v) == [kind |-> kind, at |-> at, v |-> v]

\* A call on props: its name and arguments, props before it, and what it
\* returned (ret, count, the location found, the clone) or raised.
Edit(op, path, value, before, ok, e, ret, count, loc, clone) ==
    [op |-> op, path |-> path, value |-> value, before |-> before,
     ok |-> ok, err |-> e, ret |-> ret, count |-> count, loc |-> loc,
     clone |-> clone]

NoEdit == Edit("none", <<>>, NoValue, <<>>, TRUE, "", FALSE, 0, <<>>, <<>>)

InitTree ==
    /\ tree \in Trees \cup BadTrees \cup HintlessTrees
    /\ data = <<>>
    /\ origin = Origin("none", 0, 0)
    /\ offset = 0 /\ props = <<>> /\ iter = 0
    /\ pc = "tree" /\ err = "" /\ out = <<>> /\ edit = NoEdit
    /\ NoEditor

InitReference ==
    /\ tree = <<>>
    /\ \/ data \in ReferenceStrings /\ origin = Origin("reference", 0, 0)
       \/ data \in ReferenceMaps /\ origin = Origin("reference_map", 0, 0)
    /\ offset = 0 /\ props = <<>> /\ iter = 0
    /\ pc = "buffer" /\ err = "" /\ out = <<>> /\ edit = NoEdit
    /\ NoEditor

Init == InitTree \/ InitReference

\* new_binary = serializer.serialize(properties)
Serialize ==
    /\ pc = "tree"
    /\ data' = serialize(tree)
    /\ tree' = after_write_properties(tree)
    /\ edit' = Edit("serialize", <<>>, NoValue, tree, TRUE, "", FALSE, 0,
                    <<>>, <<>>)
    /\ origin' = Origin(IF Malformed(tree) THEN "malformed"
                        ELSE IF Hintless(tree) THEN "hintless"
                        ELSE "encoder", 0, 0)
    /\ pc' = "buffer"
    /\ UNCHANGED <<offset, props, iter, err, out, mounts, modified, call>>

\* A second serializer.serialize(properties) on the same tree.
SerializeAgain ==
    /\ pc = "buffer" /\ origin.kind \in {"encoder", "malformed", "hintless"}
    /\ out' = serialize(tree)
    /\ tree' = after_write_properties(tree)
    /\ pc' = "again"
    /\ UNCHANGED <<data, origin, offset, props, iter, err, edit, mounts, modified, call>>

\* The offset of the first property's size field in a buffer.
SizePos(d) == read_fstring(d, read_fstring(d, 0).off).off

\* The buffer came from a writer that set the first property's array index.
PatchIndex(k) ==
    /\ pc = "buffer" /\ origin.kind = "encoder" /\ tree # <<>>
    /\ data' = Overwrite(data, SizePos(data) + 4, pack_i(k))
    /\ origin' = Origin("index", SizePos(data) + 4, k)
    /\ UNCHANGED <<tree, offset, props, iter, pc, err, out, edit, mounts, modified, call>>

\* The buffer carries another declared size in its first property.
PatchSize(v) ==
    /\ pc = "buffer" /\ origin.kind = "encoder" /\ tree \in ByteTrees
    /\ v # unpack_i(SubSeq(data, SizePos(data) + 1, SizePos(data) + 4))
    /\ data' = Overwrite(data, SizePos(data), pack_i(v))
    /\ origin' = Origin("size", SizePos(data), v)
    /\ UNCHANGED <<tree, offset, props, iter, pc, err, out, edit, mounts, modified, call>>

\* The offset of the last byte (8-bit form) or last 16-bit unit (16-bit
\* form) of the string whose length prefix is at offset at of d.
TerminatorPos(d, at) ==
    IF read_int32(d, at).v < 0 THEN at + 4 + 2 * (-read_int32(d, at).v) - 2
    ELSE at + 4 + read_int32(d, at).v - 1

\* The buffer carries b, not NUL, where the value string of its first
\* property (a StrProperty) declares its terminator.
PatchTerminator(b) ==
    /\ pc = "buffer" /\ origin.kind = "encoder" /\ tree # <<>>
    /\ tree[1].type_name = S_StrProperty /\ tree[1].value.k = "str"
    /\ data' = Overwrite(data, TerminatorPos(data, SizePos(data) + 9), <<b>>)
    /\ origin' = Origin("terminator", TerminatorPos(data, SizePos(data) + 9), b)
    /\ UNCHANGED <<tree, offset, props, iter, pc, err, out, edit, mounts, modified, call>>

\* The buffer was cut short after c bytes.
Truncate(c) ==
    /\ pc = "buffer" /\ origin.kind = "encoder" /\ tree \in ByteTrees
    /\ c < Len(data)
    /\ data' = SubSeq(data, 1, c)
    /\ origin' = Origin("truncated", c, 0)
    /\ UNCHANGED <<tree, offset, props, iter, pc, err, out, edit, mounts, modified, call>>

\* reader = BinaryReader(data); properties = []
Open ==
    /\ pc = "buffer"
    /\ offset' = 0 /\ props' = <<>> /\ iter' = 0
    /\ pc' = "reading"
    /\ UNCHANGED <<tree, data, origin, err, out, edit, mounts, modified, call>>

\* The passes the loop may make before the model stops counting them.
IterCap(d) == Len(d) \div 4 + 1

\* while reader.remaining >= 4 fails: return properties
ReadUnderflow ==
    /\ pc = "reading"
    /\ remaining(data, offset) < 4
    /\ pc' = "decoded"
    /\ UNCHANGED <<tree, data, origin, offset, props, iter, err, out, edit, mounts, modified, call>>

\* One pass: the property read is appended.
ReadPass ==
    /\ pc = "reading"
    /\ remaining(data, offset) >= 4
    /\ iter < IterCap(data)
    /\ \E r \in {read_property(data, offset, MaxSteps)} :
           /\ r.ok /\ ~IsEnd(r.v)
           /\ props' = Append(props, r.v)
           /\ offset' = r.off
    /\ iter' = iter + 1
    /\ UNCHANGED <<tree, data, origin, pc, err, out, edit, mounts, modified, call>>

\* One pass: the terminator is read, break, return properties.
ReadTerminator ==
    /\ pc = "reading"
    /\ remaining(data, offset) >= 4
    /\ \E r \in {read_property(data, offset, MaxSteps)} :
           /\ r.ok /\ IsEnd(r.v)
           /\ offset' = r.off
    /\ pc' = "decoded"
    /\ UNCHANGED <<tree, data, origin, props, iter, err, out, edit, mounts, modified, call>>

\* One pass: a read raises, and the exception leaves deserialize.
ReadRaises ==
    /\ pc = "reading"
    /\ remaining(data, offset) >= 4
    /\ \E r \in {read_property(data, offset, MaxSteps)} :
           /\ ~r.ok
           /\ err' = r.err
           /\ offset' = r.off
    /\ pc' = "failed"
    /\ UNCHANGED <<tree, data, origin, props, iter, out, edit, mounts, modified, call>>

\* new_data = serializer.serialize(properties) on the decoded list.
Reencode ==
    /\ pc = "decoded"
    /\ out' = serialize(props)
    /\ pc' = "encoded"
    /\ UNCHANGED <<tree, data, origin, offset, props, iter, err, edit, mounts, modified, call>>

Decode == Open \/ ReadUnderflow \/ ReadPass \/ ReadTerminator \/ ReadRaises

\* The editor works on the list deserialize returned for a mount's blob.
Loaded == pc = "decoded" /\ origin.kind \in {"encoder", "reference"}

\* prop = find_property(mount.properties, path)
Find(path) ==
    /\ Loaded
    /\ \E f \in {find_property(props, path)} :
           edit' = Edit("find", path, NoValue, props, f.ok, f.err, f.found, 0,
                        f.loc, <<>>)
    /\ pc' = "edited"
    /\ UNCHANGED <<tree, data, origin, offset, props, iter, err, out, mounts, modified, call>>

\* mount.set_value(path, value): set_property_value(self.properties, ...)
SetValue(path) ==
    /\ Loaded
    /\ \E f \in {find_property(props, path)} :
         \E v \in (IF f.found THEN NewValues(At(props, f.loc))
                   ELSE {Val("int", <<5>>, <<>>)}) :
          \E r \in {set_property_value(props, path, v)} :
             /\ props' = r.properties
             /\ edit' = Edit("set", path, v, props, r.ok, r.err, r.ret, 0,
                             f.loc, <<>>)
    /\ pc' = "edited"
    /\ UNCHANGED <<tree, data, origin, offset, iter, err, out, mounts, modified, call>>

\* editor.reset_mount_talents(index)
ResetTalents ==
    /\ Loaded
    /\ \E r \in {reset_mount_talents(props)} :
           /\ props' = r.properties
           /\ edit' = Edit("reset", S_Talents, NoValue, props, TRUE, "", FALSE,
                           r.count, <<>>, <<>>)
    /\ pc' = "edited"
    /\ UNCHANGED <<tree, data, origin, offset, iter, err, out, mounts, modified, call>>

\* new_properties = clone_properties(source.properties)
Clone ==
    /\ Loaded
    /\ \E c \in {clone_properties(props, MaxSteps)} :
           edit' = Edit("clone", <<>>, NoValue, props, c.ok, c.err, FALSE, 0,
                        <<>>, IF c.ok THEN c.v ELSE <<>>)
    /\ pc' = "edited"
    /\ UNCHANGED <<tree, data, origin, offset, props, iter, err, out, mounts, modified, call>>

\* save: binary_data = self.serializer.serialize(mount.properties)
Save ==
    /\ pc = "edited"
    /\ out' = serialize(props)
    /\ pc' = "saved"
    /\ UNCHANGED <<tree, data, origin, offset, props, iter, err, edit, mounts, modified, call>>

Next ==
    \/ Serialize
    \/ SerializeAgain
    \/ \E k \in IndexValues : PatchIndex(k)
    \/ \E v \in SizeValues \cup PaddedSizes : PatchSize(v)
    \/ \E c \in 0..(Len(data) - 1) : Truncate(c)
    \/ \E b \in TerminatorValues : PatchTerminator(b)
    \/ Decode
    \/ Reencode
    \/ \E path \in Paths \cup IndexPaths : Find(path)
    \/ \E path \in Paths : SetValue(path)
    \/ ResetTalents
    \/ Clone
    \/ Save

Spec == Init /\ [][Next]_vars

codec_vars == <<tree, data, origin, offset, props, iter, pc, err, out, edit>>

EditorInit ==
    /\ tree = <<>> /\ data = <<>> /\ origin = Origin("none", 0, 0)
    /\ offset = 0 /\ props = <<>> /\ iter = 0
    /\ pc = "editor" /\ err = "" /\ out = <<>> /\ edit = NoEdit
    /\ mounts \in LoadedMounts
    /\ modified = FALSE
    /\ call = NoCall

\* The command goes on: no call has raised.
Running == pc = "editor" /\ call.ok /\ call.n < MaxCalls

\* self as the call r leaves it, and the call.
Called(op, index, level, type, name, r) ==
    /\ mounts' = r.self.mounts
    /\ modified' = r.self.modified
    /\ call' = Call(op, index, level, type, name, Self(mounts, modified), r,
                    call.n + 1)
    /\ UNCHANGED codec_vars

\* editor.set_mount_level(index, level)
SetMountLevel(index, level) ==
    /\ Running /\ index <= Len(mounts)
    /\ \E r \in {set_mount_level(Self(mounts, modified), index, level)} :
           Called("level", index, level, None, None, r)

\* editor.change_mount_type(index, target_type_name, new_name)
ChangeMountType(index, target_type_name, new_name) ==
    /\ Running /\ index <= Len(mounts)
    /\ \E r \in {change_mount_type(Self(mounts, modified), index,
                                   target_type_name, new_name)} :
           Called("type", index, 0, target_type_name, new_name, r)

\* editor.clone_mount(source_index, new_name, new_type)
CloneMount(source_index, new_name, new_type) ==
    /\ Running /\ source_index <= Len(mounts) /\ Len(mounts) < MaxMounts
    /\ \E new_id \in NewIds \ existing_ids(Self(mounts, modified)) :
         \E r \in {clone_mount(Self(mounts, modified), source_index, new_name,
                               new_type, new_id, MaxSteps)} :
           Called("clone", source_index, 0, new_type, new_name, r)

\* editor.delete_mount(index)
DeleteMount(index) ==
    /\ Running /\ index <= Len(mounts)
    /\ \E r \in {delete_mount(Self(mounts, modified), index)} :
           Called("delete", index, 0, None, None, r)

EditorNext ==
    \/ \E index \in Indexes, level \in Levels : SetMountLevel(index, level)
    \/ \E index \in Indexes, type \in TypeNames :
          \E name \in IF type = MOUNT_TYPES[6].key THEN {None, N_N} ELSE {None} :
             ChangeMountType(index, type, name)
    \/ \E index \in Indexes, type \in {None, MOUNT_TYPES[4].key, <<68>>} :
          CloneMount(index, N_N, type)
    \/ \E index \in Indexes : DeleteMount(index)

EditorSpec == EditorInit /\ [][EditorNext]_vars

----------------------------------------------------------------------------
(* The layout the size fields are measured against, computed from the      *)
(* tree alone: the length of every string, header and value region.        *)

Int32At(d, at) == unpack_i(SubSeq(d, at + 1, at + 4))

RECURSIVE SumSeq(_)
SumSeq(ns) == IF ns = <<>> THEN 0 ELSE Head(ns) + SumSeq(Tail(ns))

\* Length prefix, the characters in their width, the terminator.
fstring_len(s) ==
    IF s = None THEN 4
    ELSE IF IsAscii(s) THEN 4 + Len(s) + 1
    ELSE 4 + 2 * utf16_units(s) + 2

tag_len(p) == fstring_len(p.name) + fstring_len(p.type_name)

\* The per-type header between the array index and the value region.
header_len(p) ==
    IF p.type_name = S_ArrayProperty THEN fstring_len(p.inner_type) + 1
    ELSE IF p.type_name = S_StructProperty THEN fstring_len(p.struct_type) + 17
    ELSE IF p.type_name = S_EnumProperty THEN fstring_len(p.enum_type) + 1
    ELSE IF p.type_name = S_BoolProperty THEN 2
    ELSE 1

IsStructArray(p) ==
    p.type_name = S_ArrayProperty /\ p.inner_type = S_StructProperty

\* The prototype header of a struct array: a full tag with GUID and padding.
proto_len(p) ==
    fstring_len(p.elem_name) + fstring_len(S_StructProperty) + 8
      + fstring_len(p.struct_type) + 17

RECURSIVE region_len(_)
RECURSIVE list_len(_)

\* All element bodies of a struct array, each a terminated property list.
bodies_len(p) ==
    SumSeq([k \in 1..Len(p.nested) |-> list_len(p.nested[k].nested)])

\* The value region of a property.
region_len(p) ==
    IF p.type_name = S_BoolProperty THEN 0
    ELSE IF p.type_name = S_StructProperty
    THEN IF IsFixedLayout(p.struct_type) THEN CORE_STRUCT_TYPES(p.struct_type)
         ELSE list_len(p.nested)
    ELSE IF IsStructArray(p) THEN 4 + proto_len(p) + bodies_len(p)
    ELSE IF p.type_name = S_ArrayProperty
    THEN 4 + (IF p.inner_type = S_ByteProperty THEN Len(p.value.l)
              ELSE IF p.inner_type \in {S_IntProperty, S_FloatProperty}
              THEN 4 * Len(p.value.l)
              ELSE IF p.inner_type = S_StrProperty
              THEN SumSeq([k \in 1..Len(p.value.l) |-> fstring_len(p.value.l[k])])
              ELSE 0)
    ELSE IF p.type_name \in {S_EnumProperty, S_StrProperty, S_NameProperty}
    THEN fstring_len(IF p.value.k = "none" THEN None ELSE p.value.i)
    ELSE IF p.type_name \in {S_IntProperty, S_UInt32Property, S_FloatProperty}
    THEN 4
    ELSE IF p.type_name \in {S_Int64Property, S_DoubleProperty} THEN 8
    ELSE Len(p.value.i)

property_len(p) == tag_len(p) + 8 + header_len(p) + region_len(p)

\* The properties of a list, then the None terminator.
list_len(ps) ==
    SumSeq([k \in 1..Len(ps) |-> property_len(ps[k])]) + fstring_len(S_None)

RECURSIVE Placed(_, _)
RECURSIVE ElementsPlaced(_, _)

\* The properties inside the value region of p that starts at vs.
Inside(p, vs) ==
    IF p.type_name = S_StructProperty /\ ~IsFixedLayout(p.struct_type)
    THEN Placed(p.nested, vs)
    ELSE IF IsStructArray(p) THEN ElementsPlaced(p.nested, vs + 4 + proto_len(p))
    ELSE {}

ElementsPlaced(elems, off) ==
    IF elems = <<>> THEN {}
    ELSE Placed(Head(elems).nested, off)
           \cup ElementsPlaced(Tail(elems), off + list_len(Head(elems).nested))

\* Every property of a list written at off, at any depth, with its offset.
Placed(ps, off) ==
    IF ps = <<>> THEN {}
    ELSE {<<off, Head(ps)>>}
           \cup Inside(Head(ps), off + tag_len(Head(ps)) + 8 + header_len(Head(ps)))
           \cup Placed(Tail(ps), off + property_len(Head(ps)))

\* The None name string that ends a list: prefix 5, 'None', NUL.
NoneName == <<5, 0, 0, 0, 78, 111, 110, 101, 0>>

\* The offset at which the value region of the property placed as q starts.
ValueStart(q) == q[1] + tag_len(q[2]) + 8 + header_len(q[2])

\* The offset at which element body k of the struct array placed as q ends.
BodyEnd(q, k) ==
    ValueStart(q) + 4 + proto_len(q[2])
      + SumSeq([j \in 1..k |-> list_len(q[2].nested[j].nested)])

\* The array body of a struct array without elements: count 0, then the
\* prototype header (name, type, size 0, array index 0, struct tag, GUID,
\* padding).
EmptyArrayBody(p) ==
    pack_i(0) \o ref_fstring(p.elem_name) \o ref_fstring(S_StructProperty)
      \o pack_i(0) \o pack_i(0) \o ref_fstring(p.struct_type) \o Zeros(17)

\* In the bytes d written for the list ps, the value region of every
\* struct array without elements is that body and nothing else.
EmptyArraysBare(d, ps) ==
    \A q \in {x \in Placed(ps, 0) : IsStructArray(x[2]) /\ x[2].nested = <<>>} :
      /\ Int32At(d, q[1] + tag_len(q[2])) = Len(EmptyArrayBody(q[2]))
      /\ SubSeq(d, ValueStart(q) + 1, ValueStart(q) + Len(EmptyArrayBody(q[2])))
           = EmptyArrayBody(q[2])

\* Where the record at location loc lies in the bytes of a list written at
\* off: the offset vs at which its value region starts, and the offsets of
\* the size fields of the record and of the properties around it (for the
\* elements of a struct array, the size field of their prototype header).
\* headed is FALSE for the elements of a struct array, which are bodies
\* without a header of their own.
RECURSIVE Trail(_, _, _, _)
Trail(ps, loc, off, headed) ==
    LET p == ps[loc[1]]
        start == off + SumSeq([j \in 1..(loc[1] - 1) |->
                                 IF headed THEN property_len(ps[j])
                                 ELSE list_len(ps[j].nested)])
        vs == IF headed THEN start + tag_len(p) + 8 + header_len(p) ELSE start
        here == IF headed THEN {start + tag_len(p)} ELSE {}
        array == headed /\ IsStructArray(p)
        below == IF array
                 THEN Trail(p.nested, Tail(loc), vs + 4 + proto_len(p), FALSE)
                 ELSE Trail(p.nested, Tail(loc), vs, TRUE)
        proto == IF array
                 THEN {vs + 4 + fstring_len(p.elem_name)
                          + fstring_len(S_StructProperty)}
                 ELSE {}
    IN  IF Len(loc) = 1 THEN [sizes |-> here, vs |-> vs]
        ELSE [sizes |-> here \cup proto \cup below.sizes, vs |-> below.vs]

\* A record that holds one scalar or string and no children.
ScalarLeaf(p) ==
    p.type_name \in SimpleTypes \cup {S_BoolProperty, S_EnumProperty}

\* new is old with the value bytes of one leaf replaced: the leaf had
\* old_len bytes at vs in old and has new_len bytes at vs in new; flag is the
\* offset of a Bool's value byte (-1 for the other types); the size fields
\* at sizes moved by the difference of the lengths; every other byte of new
\* is the byte of old, those after the leaf shifted by the difference.
OnlyLeafDiffers(old, new, vs, old_len, new_len, flag, sizes) ==
    /\ Len(new) = Len(old) + (new_len - old_len)
    /\ \A s \in sizes : Int32At(new, s) = Int32At(old, s) + (new_len - old_len)
    /\ \A i \in 1..vs :
         (i # flag + 1 /\ \A s \in sizes : i \notin (s + 1)..(s + 4))
           => new[i] = old[i]
    /\ \A i \in (vs + new_len + 1)..Len(new) :
         new[i] = old[i - (new_len - old_len)]

\* The segments of a path of the grammar
\*     path := segment ("." segment)*    segment := name ( "[" index "]" )?
\* each as [name, index], index -1 for a segment without suffix.
RECURSIVE Segments(_)
Segments(path) ==
    LET dot == IndexOf(path, 46)
        s == IF dot = 0 THEN path ELSE SubSeq(path, 1, dot - 1)
        lb == IndexOf(s, 91)
        seg == IF lb = 0 THEN [name |-> s, index |-> -1]
               ELSE [name |-> SubSeq(s, 1, lb - 1),
                     index |-> digits(SubSeq(s, lb + 1, Len(s) - 1))]
    IN  IF dot = 0 THEN <<seg>>
        ELSE <<seg>> \o Segments(SubSeq(path, dot + 1, Len(path)))

\* The walk of the path semantics: at each segment, the first child of
\* that name; with an index, the child must be an array and the walk goes
\* to its child at the index; the next segment is matched among the
\* children of the record reached.  The location reached, <<>> when the
\* walk cannot be completed.
RECURSIVE Walk(_, _)
Walk(children, segs) ==
    LET seg == Head(segs)
        named == {k \in 1..Len(children) : children[k].name = seg.name}
        k == CHOOSE j \in named : \A i \in named : j <= i
        step == IF seg.index < 0 THEN <<k>> ELSE <<k, seg.index + 1>>
        reached == At(children, step)
        further == Walk(reached.nested, Tail(segs))
    IN  IF named = {} THEN <<>>
        ELSE IF seg.index >= 0
                /\ (children[k].type_name # S_ArrayProperty
                    \/ seg.index >= Len(children[k].nested))
        THEN <<>>
        ELSE IF Len(segs) = 1 THEN step
        ELSE IF further = <<>> THEN <<>>
        ELSE step \o further

\* The locations of all records of a list, at any depth.
RECURSIVE Locs(_)
Locs(ps) ==
    UNION {{<<k>>} \cup {<<k>> \o l : l \in Locs(ps[k].nested)} : k \in 1..Len(ps)}

\* The attributes of a record itself; of its children, their number.
Own(p) == [p EXCEPT !.nested = Len(p.nested)]

\* The buffer is the encoder's output for tree, untouched.
Encoded == origin.kind = "encoder" /\ pc # "tree"

\* deserialize returned a list.
Returned == pc \in {"decoded", "encoded"}

----------------------------------------------------------------------------
(* The claims.                                                             *)

\* C1: for every blob the reference encoder can produce, deserialize
\* returns and serialize of the result equals the blob byte for byte.
C1_RoundTripIdentity ==
    origin.kind \in {"reference", "reference_map"}
      => pc # "failed" /\ (pc = "encoded" => out = data)

\* C2: for every tree t, deserialize(serialize(t)) returns a tree with the
\* names, type tags, child order and scalar values of t.
C2_EncodeIdempotence ==
    Encoded => pc # "failed" /\ (Returned => props = tree)

\* C3: in the bytes serialize writes, the size field of every property, at
\* any depth, holds the length of its value region only (after the per-type
\* header or the padding byte); for a struct, its children and their None
\* terminator; for a Bool, 0, with the value byte and the padding byte after
\* the array index.  The regions laid end to end make up the whole buffer.
C3_SizeFieldIsValueRegion ==
    Encoded =>
      /\ Len(data) = list_len(tree) + 4
      /\ \A q \in Placed(tree, 0) :
           /\ Int32At(data, q[1] + tag_len(q[2])) = region_len(q[2])
           /\ q[2].type_name = S_BoolProperty =>
                /\ Int32At(data, q[1] + tag_len(q[2])) = 0
                /\ data[q[1] + tag_len(q[2]) + 9] = q[2].value.i[1]
                /\ data[q[1] + tag_len(q[2]) + 10] = 0

C3_Witness ==
    /\ Encoded /\ pc = "buffer" /\ Len(tree) = 2
    /\ tree[1].type_name = S_StructProperty
    /\ tree[1].struct_type = N_S
    /\ Len(tree[1].nested) = 1
    /\ Int32At(data, tag_len(tree[1])) = property_len(tree[1].nested[1]) + 9

C5_MapRoundTrip ==
    origin.kind = "reference_map"
      => pc # "failed" /\ (pc = "encoded" => out = data)

\* C6 as stated: a property whose array index in the input is k has k in
\* its array index field after decoding and encoding again.
C6_IndexPreserved ==
    (origin.kind = "index" /\ pc = "encoded")
      => Int32At(out, origin.at) = origin.v

\* C6, amended: the array index is read and not kept; the decoded tree is
\* the one index 0 gives, and encoding it writes 0 in the field, so the
\* output is the input with that field zeroed.
C6_IndexWrittenAsZero ==
    origin.kind = "index" =>
      /\ Returned => props = tree
      /\ pc = "encoded" => out = Overwrite(data, origin.at, pack_i(0))

C6_Witness ==
    /\ origin.kind = "index" /\ origin.v = 7 /\ pc = "encoded"
    /\ Int32At(data, origin.at) = 7
    /\ Int32At(out, origin.at) = 0

\* C7: the property-list loop makes no more passes than the buffer has
\* four-byte words, each pass consuming at least the length prefix it reads.
C7_PassesBoundedByInput == 4 * iter <= Len(data)

\* C8: a buffer that ends before the None terminator of its property list
\* is complete makes deserialize raise; no list is returned.
C8_TruncationFatal ==
    (origin.kind = "truncated" /\ origin.at < Len(serialize(tree)) - 4)
      => ~Returned

\* C9: a property whose size field is negative makes deserialize raise.
C9_NegativeSizeFatal ==
    (origin.kind = "size" /\ origin.v < 0) => ~Returned

FirstIsPropertyStruct ==
    /\ tree # <<>>
    /\ tree[1].type_name = S_StructProperty
    /\ ~IsFixedLayout(tree[1].struct_type)
    /\ tree[1].nested # <<>>

\* C11: when a struct of declared size S holds nested properties that
\* consume more than S bytes, deserialize raises; no list is returned.
C11_SizeMismatchFatal ==
    (/\ origin.kind = "size" /\ FirstIsPropertyStruct
     /\ origin.v > 0 /\ origin.v < property_len(tree[1].nested[1]))
      => ~Returned

\* C12: serialize of a tree that holds an ArrayProperty record with no
\* inner type, or a StructProperty record with no struct tag, fails and
\* produces no byte output.
C12_BadTreeRejected == Malformed(tree) => data = <<>>

\* C13: write_fstring emits prefix 0 and no bytes for an absent string,
\* prefix 1 and one NUL for the empty string, for an all-ASCII string the
\* byte count with the NUL, and for a string with a code point >= 0x80 a
\* negative prefix whose magnitude is the number of 16-bit units written,
\* the NUL unit included.  Stated on the value of a StrProperty that
\* serialize wrote first in the buffer.
C13_LengthPrefixRule ==
    (Encoded /\ tree # <<>> /\ tree[1].type_name = S_StrProperty) =>
      LET at == tag_len(tree[1]) + 9
          n == Int32At(data, at)
          v == tree[1].value
          rest == SubSeq(data, at + 5, Len(data))
          after == write_properties(Tail(tree), TRUE)
      IN  IF v.k = "none" THEN n = 0 /\ rest = after
          ELSE IF v.i = <<>> THEN n = 1 /\ rest = <<0>> \o after
          ELSE IF IsAscii(v.i)
          THEN n = Len(v.i) + 1 /\ rest = v.i \o <<0>> \o after
          ELSE /\ n < 0
               /\ rest = encode_utf16(v.i) \o <<0, 0>> \o after
               /\ 2 * (-n) = Len(encode_utf16(v.i) \o <<0, 0>>)

\* C14: read_fstring raises when the last byte (8-bit form) or the last
\* 16-bit unit (16-bit form) of the declared string is not the NUL
\* terminator, as it does when the prefix exceeds the remaining buffer.
C14_MalformedStringFatal ==
    /\ origin.kind = "terminator" => ~Returned
    /\ (/\ origin.kind = "truncated" /\ tree # <<>>
        /\ tree[1].type_name = S_StrProperty /\ tree[1].value.k = "str"
        /\ origin.at >= tag_len(tree[1]) + 13
        /\ origin.at < property_len(tree[1])) => ~Returned

\* C15: every property list serialize writes ends with one None name
\* string; the top-level list is followed by exactly four zero bytes, which
\* end the buffer, and the lists of struct values and of struct-array
\* element bodies are followed by none: the next property or terminator
\* starts right after them.  The empty top-level list is the None name
\* string and four zero bytes.
C15_ListTermination ==
    Encoded =>
      /\ Len(data) = list_len(tree) + 4
      /\ SubSeq(data, Len(data) - 12, Len(data)) = NoneName \o <<0, 0, 0, 0>>
      /\ tree = <<>> => data = NoneName \o <<0, 0, 0, 0>>
      /\ \A q \in Placed(tree, 0) :
           /\ (q[2].type_name = S_StructProperty /\ ~IsFixedLayout(q[2].struct_type))
                => /\ Int32At(data, q[1] + tag_len(q[2])) = list_len(q[2].nested)
                   /\ SubSeq(data, ValueStart(q) + list_len(q[2].nested) - 8,
                             ValueStart(q) + list_len(q[2].nested)) = NoneName
           /\ IsStructArray(q[2])
                => \A k \in 1..Len(q[2].nested) :
                     SubSeq(data, BodyEnd(q, k) - 8, BodyEnd(q, k)) = NoneName

C15_Witness ==
    /\ Encoded /\ pc = "buffer" /\ Len(tree) = 1
    /\ IsStructArray(tree[1])
    /\ Len(tree[1].nested) = 2
    /\ tree[1].nested[1].nested = <<>>
    /\ Len(tree[1].nested[2].nested) = 1
    /\ SubSeq(data, Len(data) - 21, Len(data)) = NoneName \o NoneName \o <<0, 0, 0, 0>>
    /\ SubSeq(data, BodyEnd(<<0, tree[1]>>, 1) + 1, BodyEnd(<<0, tree[1]>>, 1) + 4)
         # <<0, 0, 0, 0>>

\* C16: a struct array with zero elements, one emptied by
\* reset_mount_talents included, is written with the array body: element
\* count 0, one prototype header whose declared size is 0, no element
\* bodies.
C16_EmptyStructArray ==
    /\ Encoded => EmptyArraysBare(data, tree)
    /\ (pc = "saved" /\ edit.op = "reset") => EmptyArraysBare(out, props)

C16_Witness ==
    /\ pc = "saved" /\ edit.op = "reset" /\ edit.count = 2
    /\ Len(props) = 2
    /\ Len(edit.before[1].nested) = 2
    /\ props[1].name = S_Talents /\ props[1].nested = <<>>
    /\ Int32At(out, tag_len(props[1])) = 4 + proto_len(props[1])
    /\ Len(out) < Len(data)

\* C17: after set_property_value replaces the value of one scalar leaf and
\* the list is serialized again, the new blob differs from the original
\* only in the leaf's value bytes (its value region; for a Bool the value
\* byte that follows the array index) and in the size fields of the leaf
\* and of the properties that enclose it, each of which changes by the
\* difference in length of the leaf's value region (0 for the fixed-width
\* types and for strings of the same length).
C17_MutationLocality ==
    (/\ pc = "saved" /\ edit.op = "set" /\ edit.ret
     /\ ScalarLeaf(At(edit.before, edit.loc))) =>
      LET leaf == At(edit.before, edit.loc)
          tr == Trail(edit.before, edit.loc, 0, TRUE)
          bool == leaf.type_name = S_BoolProperty
      IN  OnlyLeafDiffers(data, out, tr.vs,
                          IF bool THEN 0 ELSE Int32At(data, CHOOSE s \in tr.sizes :
                                                        \A u \in tr.sizes : u <= s),
                          region_len(At(props, edit.loc)),
                          IF bool THEN tr.vs - 2 ELSE -1,
                          tr.sizes)

C17_Witness ==
    /\ pc = "saved" /\ edit.op = "set" /\ edit.ret
    /\ edit.loc = <<1, 2, 1>>
    /\ At(edit.before, edit.loc).value = StrVal(<<233>>)
    /\ At(props, edit.loc).value = StrVal(<<66, 66>>)
    /\ Cardinality(Trail(edit.before, edit.loc, 0, TRUE).sizes) = 3
    /\ Len(out) = Len(data) - 1
    /\ out # data

\* C18: for a path of the grammar, find_property returns a record exactly
\* when the walk of the path through the tree can be completed, and the
\* record it returns is the one the walk ends on; otherwise it returns
\* not-found.
C18_PathLookupSound ==
    (edit.op = "find" /\ edit.path \in Paths) =>
      /\ edit.ok
      /\ edit.ret => edit.loc = Walk(edit.before, Segments(edit.path))
      /\ ~edit.ret => Walk(edit.before, Segments(edit.path)) = <<>>

C18_Witness ==
    /\ edit.op = "find" /\ edit.ret
    /\ edit.path = <<65, 91, 49, 93, 46, 68>>
    /\ edit.loc = <<1, 2, 1>>
    /\ At(props, edit.loc).name = N_D
    /\ Len(props[1].nested[1].nested) = 1
    /\ At(props, <<1, 1, 1>>).name = N_C

\* C19: set_property_value(tree, path, v) returns True when the path leads
\* to a record, and then the tree has the same records in the same places,
\* each with its attributes unchanged, except that the record the path
\* leads to has the value v; otherwise it returns False and the tree is
\* unchanged.
C19_SetValueFrame ==
    (edit.op = "set" /\ edit.path \in Paths) =>
      /\ edit.ok
      /\ edit.ret <=> Walk(edit.before, Segments(edit.path)) # <<>>
      /\ ~edit.ret => props = edit.before
      /\ edit.ret =>
           /\ Locs(props) = Locs(edit.before)
           /\ \A l \in Locs(edit.before) :
                Own(At(props, l)) =
                  IF l = Walk(edit.before, Segments(edit.path))
                  THEN [Own(At(edit.before, l)) EXCEPT !.value = edit.value]
                  ELSE Own(At(edit.before, l))

C19_Witness ==
    /\ edit.op = "set" /\ edit.ret /\ pc = "edited"
    /\ edit.path = <<65, 91, 48, 93, 46, 67>>
    /\ edit.loc = <<1, 1, 1>>
    /\ Len(props) = 2 /\ Len(props[1].nested) = 2
    /\ At(edit.before, edit.loc).value = Val("int", <<7>>, <<>>)
    /\ At(props, edit.loc).value = Val("int", <<5>>, <<>>)
    /\ props[2] = edit.before[2]

\* C20: for any property list r, clone_properties(r) returns a list whose
\* serialization equals serialize(r) byte for byte; r itself is left as it
\* was.
C20_CloneEquivalence ==
    edit.op = "clone" =>
      /\ edit.ok
      /\ serialize(edit.clone) = serialize(edit.before)
      /\ props = edit.before

C22_MountIndexInvariant ==
    pc = "editor" =>
      /\ \A i \in 1..Len(mounts) : mounts[i].index = i - 1
      /\ (call.op = "clone" /\ call.ok) =>
            /\ call.ret = Len(call.before.mounts)
            /\ Len(mounts) = Len(call.before.mounts) + 1
            /\ SubSeq(mounts, 1, Len(mounts) - 1) = call.before.mounts
      /\ (call.op = "delete" /\ call.ok) =>
            /\ Len(mounts) = Len(call.before.mounts) - 1
            /\ \A j \in 1..Len(mounts) :
                  \E old \in {call.before.mounts[IF j <= call.index THEN j
                                                  ELSE j + 1]} :
                     /\ mounts[j].json_data = old.json_data
                     /\ mounts[j].properties = old.properties

\* A mount cloned onto a list of two, then the middle one deleted.
C22_Witness ==
    /\ pc = "editor" /\ call.op = "delete" /\ call.ok /\ call.index = 1
    /\ Len(call.before.mounts) = 3 /\ Len(mounts) = 2
    /\ call.before.mounts[3].json_data.DatabaseGUID = S_noguid
    /\ mounts[2].json_data.DatabaseGUID = S_noguid
    /\ mounts[2].index = 1

\* C23: set_mount_level(i, L) on a mount i of the list, with 1 <= L <= 50,
\* sets the mount's MountLevel to L and its Experience property, when it
\* has one, to estimate_xp_for_level(L), and leaves every other mount as
\* it was; with L outside 1..50 it raises and changes nothing, the
\* modified flag included.
C23_SetMountLevel ==
    (pc = "editor" /\ call.op = "level") =>
      /\ (call.level \in 1..50 /\ call.index \in 0..(Len(call.before.mounts) - 1))
            => /\ call.ok
               /\ Len(mounts) = Len(call.before.mounts)
               /\ mounts[call.index + 1].json_data.MountLevel = call.level
               /\ \A k \in 1..Len(mounts[call.index + 1].properties) :
                     (k = first_named(call.before.mounts[call.index + 1].properties,
                                      S_Experience))
                       => mounts[call.index + 1].properties[k].value
                            = Val("int", <<estimate_xp_for_level(call.level)>>, <<>>)
               /\ \A j \in 1..Len(mounts) :
                     j # call.index + 1 => mounts[j] = call.before.mounts[j]
      /\ call.level \notin 1..50
            => /\ ~call.ok
               /\ mounts = call.before.mounts
               /\ modified = call.before.modified

\* The second of two mounts set to level 50: its Experience is 1150000.
C23_Witness ==
    /\ pc = "editor" /\ call.op = "level" /\ call.ok
    /\ call.level = 50 /\ call.index = 1 /\ Len(mounts) = 2
    /\ mounts[2].json_data.MountLevel = 50
    /\ first_named(mounts[2].properties, S_Experience) = 2
    /\ mounts[2].properties[2].value = Val("int", <<1150000>>, <<>>)
    /\ call.before.mounts[2].properties[2].value = Val("int", <<0>>, <<>>)
    /\ modified /\ ~call.before.modified

\* C30: after a change_mount_type(i, T) that returns, for T a key of
\* MOUNT_TYPES, get_mount_type resolves the MountType recorded for mount i,
\* so the next change_mount_type on it does not fail with an unknown
\* source mount type.
C30_TypeChangeRepeatable ==
    (/\ pc = "editor" /\ call.op = "type" /\ call.ok
     /\ \E k \in 1..Len(MOUNT_TYPES) : MOUNT_TYPES[k].key = call.type)
      => get_mount_type(mounts[call.index + 1].json_data.MountType) # NoType

\* The type of the first property of a buffer.
FirstType(d) == read_fstring(d, read_fstring(d, 0).off).v

\* The offset at which the value region of the first property of a buffer
\* starts: after name, type, size, array index and the header its branch
\* of _read_property reads before the value.
FirstValueStart(d) ==
    IF FirstType(d) = S_StructProperty
    THEN read_fstring(d, SizePos(d) + 8).off + 17
    ELSE IF FirstType(d) \in {S_ArrayProperty, S_EnumProperty}
    THEN read_fstring(d, SizePos(d) + 8).off + 1
    ELSE IF FirstType(d) = S_MapProperty
    THEN read_fstring(d, read_fstring(d, SizePos(d) + 8).off).off + 1
    ELSE SizePos(d) + 9

\* The first pass of the loop has returned a property that is not a Bool.
FirstPassDone ==
    /\ pc = "reading" /\ iter = 1 /\ Len(props) = 1
    /\ props[1].type_name # S_BoolProperty

\* C24: The decoder consumes exactly the declared size of every value
\* region: once a non-Bool property has been decoded, the cursor is at the
\* start of its value region plus its declared size.
C24_ExactSizeConsumed ==
    FirstPassDone
      => offset = FirstValueStart(data) + Int32At(data, SizePos(data))

\* The first property of the tree is a struct read as a property list.
FirstIsListStruct ==
    /\ tree # <<>>
    /\ tree[1].type_name = S_StructProperty
    /\ ~IsFixedLayout(tree[1].struct_type)

\* The bytes the first k children of a property list take.
Boundary(ps, k) == SumSeq([j \in 1..k |-> property_len(ps[j])])

\* The struct was decoded to the children nested and the cursor left at
\* the start of its value region plus the declared size.
StoppedAt(nested) ==
    /\ props[1].nested = nested
    /\ offset = FirstValueStart(data) + Int32At(data, SizePos(data))

\* C25: when a property-bearing struct of declared size S is decoded, the
\* nested list ends where the None sentinel is consumed or where exactly S
\* bytes are consumed; when the sentinel is consumed before S bytes, the
\* cursor is at value start + S before the next sibling is read.
C25_SizeBoundedList ==
    (/\ origin.kind \in {"encoder", "size"} /\ FirstIsListStruct
     /\ FirstPassDone)
      => /\ Int32At(data, SizePos(data)) >= list_len(tree[1].nested)
              => StoppedAt(tree[1].nested)
         /\ \A k \in 0..Len(tree[1].nested) :
              Int32At(data, SizePos(data)) = Boundary(tree[1].nested, k)
                => StoppedAt(SubSeq(tree[1].nested, 1, k))

\* A struct with one child whose declared size is 9 more than its list:
\* the sentinel is consumed 9 bytes before the size boundary, and the
\* 9 bytes are skipped.
C25_Witness ==
    /\ origin.kind = "size" /\ FirstIsListStruct /\ FirstPassDone
    /\ Len(tree[1].nested) = 1
    /\ origin.v = list_len(tree[1].nested) + 9
    /\ offset = FirstValueStart(data) + list_len(tree[1].nested) + 9

\* A struct whose declared size ends after its one child, before the
\* sentinel: the list read is that child.
C25_WitnessBoundary ==
    /\ origin.kind = "size" /\ FirstIsListStruct /\ FirstPassDone
    /\ Len(tree[1].nested) = 1
    /\ origin.v = property_len(tree[1].nested[1])
    /\ Len(props[1].nested) = 1

\* C26: The reader's cursor advances monotonically and stays within
\* 0..len(data): once the first pass of the loop has returned, the cursor
\* is not before the start of the value region it reached during the pass.
C26_CursorMonotonic ==
    /\ offset \in 0..Len(data)
    /\ (pc = "reading" /\ iter = 1 /\ Len(props) = 1)
         => offset >= FirstValueStart(data)

\* data[off - n:off]: the n bytes read last when the cursor is at off.
Behind(d, off, n) == PySlice(d, off - n, off)

\* C27: The sentinel is never stored: no list the decoder has built, at
\* the top level, in a struct or in a struct-array element, holds a record
\* named None or a terminator record; the decoder returns at the first
\* name that is absent or None, with the properties before it and the
\* cursor right behind that name.
C27_SentinelNotStored ==
    /\ \A loc \in Locs(props) :
         /\ At(props, loc).name # None
         /\ At(props, loc).name # S_None
         /\ At(props, loc).type_name # S_terminator
    /\ pc = "decoded"
         => \/ remaining(data, offset) < 4
            \/ Behind(data, offset, 9) = NoneName
            \/ Behind(data, offset, 4) = Zeros(4)
    /\ (Encoded /\ pc = "decoded")
         => /\ Len(props) = Len(tree)
            /\ offset = list_len(tree)
            /\ Behind(data, offset, 9) = NoneName

\* A struct array of two elements and a sibling were decoded: the list of
\* each element and the top-level list ended at their None names.
C27_Witness ==
    /\ Encoded /\ pc = "decoded" /\ Len(tree) = 2
    /\ IsStructArray(tree[1]) /\ Len(tree[1].nested) = 2
    /\ tree[1].nested[1].nested # <<>>
    /\ props = tree
    /\ offset = Len(data) - 4

\* The registry of fixed layouts: tag and byte length.
FixedLayouts ==
    { <<S_Vector, 12>>, <<S_Vector2D, 8>>, <<S_Rotator, 12>>, <<S_Quat, 16>>,
      <<S_LinearColor, 16>>, <<S_Color, 4>>, <<S_Guid, 16>>,
      <<S_DateTime, 8>>, <<S_Timespan, 8>> }

\* The bytes of the value region of the first property of a buffer.
FirstRegion(d) ==
    PySlice(d, FirstValueStart(d), FirstValueStart(d) + Int32At(d, SizePos(d)))

\* The fields of a fixed-layout value in the order they are written: the
\* blue, green, red and alpha bytes of a Color, the fields of the others as
\* they are kept.
LayoutBytes(p) ==
    IF p.struct_type = S_Color
    THEN p.value.l[3] \o p.value.l[2] \o p.value.l[1] \o p.value.l[4]
    ELSE IF p.value.k = "dict" THEN Flatten(p.value.l)
    ELSE p.value.i

\* C28: Fixed-layout dispatch: a struct tagged Vector, Vector2D, Rotator,
\* Quat, LinearColor, Color, Guid, DateTime or Timespan is written as its
\* fields in the fixed layout of 12, 8, 12, 16, 16, 4, 16, 8 or 8 bytes (a
\* Color as B, G, R, A), which is its whole value region, and is read back
\* with that value and no children; a struct with any other tag is written
\* and read back as a None-terminated property list.
C28_FixedLayoutDispatch ==
    (Encoded /\ tree # <<>> /\ tree[1].type_name = S_StructProperty)
      => /\ \A f \in FixedLayouts :
              tree[1].struct_type = f[1]
                => /\ Int32At(data, SizePos(data)) = f[2]
                   /\ FirstRegion(data) = LayoutBytes(tree[1])
                   /\ Len(LayoutBytes(tree[1])) = f[2]
                   /\ (pc = "decoded" \/ FirstPassDone)
                        => /\ props[1].nested = <<>>
                           /\ props[1].value = tree[1].value
                           /\ props[1].struct_type = f[1]
         /\ tree[1].struct_type \notin {f[1] : f \in FixedLayouts}
              => /\ Behind(FirstRegion(data), Len(FirstRegion(data)), 9) = NoneName
                 /\ FirstRegion(data) = Flatten([k \in 1..Len(tree[1].nested) |->
                                           write_property(tree[1].nested[k])])
                                          \o NoneName
                 /\ (pc = "decoded" \/ FirstPassDone)
                      => /\ props[1].nested = tree[1].nested
                         /\ props[1].value = NoValue

\* A Color followed by a sibling has been decoded.
C28_Witness ==
    /\ Encoded /\ pc = "decoded" /\ Len(tree) = 2
    /\ tree[1].struct_type = S_Color
    /\ FirstRegion(data) = <<3, 2, 1, 4>>
    /\ props[1].value = Val("dict", <<>>, << <<1>>, <<2>>, <<3>>, <<4>> >>)

\* A Transform with one child has been decoded to a list of one child.
C28_WitnessTransform ==
    /\ Encoded /\ pc = "decoded" /\ tree # <<>>
    /\ tree[1].type_name = S_StructProperty
    /\ tree[1].struct_type = S_Transform
    /\ Len(props[1].nested) = 1

\* The record a one-segment path names in a list, and the index the path
\* carries.
NamedBy(properties, path) ==
    properties[first_named(properties, IndexSuffix(path).name)]

IndexIn(path) == IndexSuffix(path).index

\* find_property was called with a one-segment path that carries an index
\* and names a record of the list.
IndexedFind ==
    /\ edit.op = "find"
    /\ IndexOf(edit.path, 46) = 0
    /\ IndexSuffix(edit.path).ok /\ IndexSuffix(edit.path).indexed
    /\ first_named(edit.before, IndexSuffix(edit.path).name) # 0

\* C29: find_property returns not-found, and does not raise, when the index
\* of the path is outside 0..len(children)-1 of the matched array, negative
\* indices included, and when the matched record is not an array; it never
\* returns a child for a negative index.
C29_BadIndexNotFound ==
    IndexedFind
      => /\ (\/ NamedBy(edit.before, edit.path).type_name # S_ArrayProperty
             \/ IndexIn(edit.path) < 0
             \/ IndexIn(edit.path) >= Len(NamedBy(edit.before, edit.path).nested))
               => edit.ok /\ ~edit.ret
         /\ IndexIn(edit.path) < 0 => ~edit.ret

=============================================================================
